---- MODULE Spec2Model ----
\* Star-state engine of the Openroot "helping hand" page (src/script.js, v1.3.3):
\* identity resolution, per-identity persisted star sets, the capacity-bounded
\* toggle, and the DOM reordering driven by requestAnimationFrame callbacks.
EXTENDS Integers, Sequences, FiniteSets, TLC

\* ---------------------------------------------------------------- bounds
\* Toggle requests explored per behaviour.
MaxToggles == 2
\* Page loads (navigations and reloads) explored per behaviour.
MaxLoads == 2
\* Frame callbacks that may be pending at once.
MaxPending == 2
\* Storage events and scheduled reloads that may be pending at once.
MaxEvents == 1

\* Calls of init() on the engine of a document after the first.
MaxReinits == 1

\* -------------------------------------------------------------- constants
MAX_STARS == 5
GUEST == "guest_user"
MAIN_SITE_KEY == "openrootUserUID"
CACHE_KEY == "openroot_current_uid"
\* JS null / a missing item. Every read of the script goes through "|| null",
\* "!value" or "raw ? ... : ...", which treat the empty string like null.
NULL == ""

VARIABLES
    page,            \* the document as served: one record per segment container
    links,           \* the query strings this browser may navigate the page with
    location,        \* query parameters of the current URL: [uid, user]
    localStorage,    \* key -> item ([str, obj]); str = NULL when the key is absent
    sessionStorage,  \* value of the main-site key in session storage
    loaded,          \* the script has run in the current document
    USER_UID,        \* module-level identity, resolved once per load
    starredMap,      \* segId -> insertion-ordered set of card ids (a duplicate-free sequence)
    cardSegmentMap,  \* card id -> segment element
    segIdAttr,       \* segment element -> dataset.segId ("" when unset)
    cardIdAttr,      \* card element -> dataset.id ("" when unset)
    origIndex,       \* card element -> dataset.origIndex (-1 when unset)
    btnStarred,      \* card element -> its star control shows the starred state
    dom,             \* segment element -> its card children, in DOM order
    raf,             \* callbacks requested for the next frame, FIFO
    cur,             \* callbacks of the frame being run, FIFO
    lastOp,          \* the operation that produced this state (observation only)
    lastSet,         \* outcome of the last toggle's Storage.set in this load: "none", "ok", "failed"
    toggles,         \* toggle requests so far
    loads,           \* page loads so far
    events,          \* storage events dispatched to this document, not yet handled, FIFO
    timers,          \* reloads scheduled with setTimeout in this document, not yet fired
    reinits,         \* calls of init() after the first, over all documents
    tabs             \* further tabs of the page: their identity and their storage listener

vars == <<page, links, location, localStorage, sessionStorage, loaded, USER_UID,
          starredMap, cardSegmentMap, segIdAttr, cardIdAttr, origIndex, btnStarred,
          dom, raf, cur, lastOp, lastSet, toggles, loads, events, timers, reinits, tabs>>

\* ------------------------------------------------------------ sequences
Range(s) == {s[i] : i \in DOMAIN s}

IndexOf(s, x) == IF x \in Range(s) THEN CHOOSE i \in DOMAIN s : s[i] = x ELSE 0

Without(s, x) == SelectSeq(s, LAMBDA y : y # x)

\* s with x inserted so that it becomes the k-th element (1 <= k <= Len(s)+1).
InsertAt(s, k, x) == SubSeq(s, 1, k - 1) \o <<x>> \o SubSeq(s, k, Len(s))

IsDupFree(s) == \A i, j \in DOMAIN s : s[i] = s[j] => i = j

\* All duplicate-free sequences over S of length at most n.
RECURSIVE DupFreeSeqs(_, _)
DupFreeSeqs(S, n) ==
    IF n = 0 THEN {<<>>}
    ELSE LET shorter == DupFreeSeqs(S, n - 1)
             longer == {<<s, x>> \in shorter \X S : x \notin Range(s)}
         IN shorter \cup {Append(sx[1], sx[2]) : sx \in longer}

Perms(s) == {p \in DupFreeSeqs(Range(s), Len(s)) : Len(p) = Len(s)}

\* ------------------------------------------------------------- strings
\* Attribute values are sequences of one-character strings, so that the
\* normalisation of a segment label is computed character by character.
UpperCase == <<"A","B","C","D","E","F","G","H","I","J","K","L","M",
               "N","O","P","Q","R","S","T","U","V","W","X","Y","Z">>
LowerCase == <<"a","b","c","d","e","f","g","h","i","j","k","l","m",
               "n","o","p","q","r","s","t","u","v","w","x","y","z">>

IsSpace(c) == c \in {" ", "\t"}

UpperToLower == [c \in Range(UpperCase) |-> LowerCase[IndexOf(UpperCase, c)]]

toLowerCase(c) == IF c \in DOMAIN UpperToLower THEN UpperToLower[c] ELSE c

RECURSIVE SkipSpaces(_)
SkipSpaces(cs) ==
    IF cs # <<>> /\ IsSpace(Head(cs)) THEN SkipSpaces(Tail(cs)) ELSE cs

\* label.replace(/\s+/g, "_"): every maximal run of whitespace becomes one "_".
RECURSIVE ReplaceSpaces(_)
ReplaceSpaces(cs) ==
    IF cs = <<>> THEN <<>>
    ELSE IF IsSpace(Head(cs)) THEN <<"_">> \o ReplaceSpaces(SkipSpaces(cs))
    ELSE <<Head(cs)>> \o ReplaceSpaces(Tail(cs))

SEGMENT_LABEL == <<"s","e","g","m","e","n","t">>

\* seg.getAttribute("id") || seg.className || "segment"
SegLabel(segRec) ==
    IF segRec.idAttr # <<>> THEN segRec.idAttr
    ELSE IF segRec.cls # <<>> THEN segRec.cls
    ELSE SEGMENT_LABEL

RandomSegId(segRec) == "seg-" \o ToString(loads)

\* .toLowerCase() of a label, read back as the string its characters spell.
RECURSIVE LowerJoin(_)
LowerJoin(cs) == IF cs = <<>> THEN "" ELSE toLowerCase(Head(cs)) \o LowerJoin(Tail(cs))

\* label.replace(/\s+/g, "_").toLowerCase()
DeriveSegId(segRec) == LowerJoin(ReplaceSpaces(SegLabel(segRec)))

\* `card-${++autoId}`
AutoCardId(n) == "card-" \o ToString(n)

\* --------------------------------------------------------------- the page
\* A served document: one record per segment container, in document order:
\* its id attribute, its class list and the number of cards it holds.
NumSegs(p) == Len(p)

RECURSIVE Offset(_, _)
Offset(p, s) == IF s <= 1 THEN 0 ELSE Offset(p, s - 1) + p[s - 1].size

NumCards(p) == Offset(p, Len(p) + 1)

\* A segment record may also say: ids, the data-id attributes its cards are
\* authored with ("" for a card that has none), and spare, the number of cards
\* a script of the page appends to the segment after the document is parsed.
AuthoredIdsOf(segRec) ==
    IF "ids" \in DOMAIN segRec THEN segRec.ids ELSE [i \in 1 .. segRec.size |-> ""]

SpareOf(segRec) == IF "spare" \in DOMAIN segRec THEN segRec.spare ELSE 0

\* The data-id attributes the spare cards are created with.
SpareIdsOf(segRec) ==
    IF "spareIds" \in DOMAIN segRec THEN segRec.spareIds ELSE [i \in 1 .. SpareOf(segRec) |-> ""]

RECURSIVE SpareOffset(_, _)
SpareOffset(p, s) ==
    IF s <= 1 THEN NumCards(p) ELSE SpareOffset(p, s - 1) + SpareOf(p[s - 1])

\* The card elements of a page: the authored ones, then the spare ones.
Els(p) == 1 .. SpareOffset(p, Len(p) + 1)

\* The card elements of segment s as authored, in document order.
AuthoredCards(p, s) == [i \in 1 .. p[s].size |-> Offset(p, s) + i]

\* The card elements a script may append to segment s.
SpareCards(p, s) == {SpareOffset(p, s) + i : i \in 1 .. SpareOf(p[s])}

\* dataset.id of every card element in the document as parsed.
AuthoredIds(p) ==
    [e \in Els(p) |->
        IF \E s \in 1 .. Len(p) : e \in Offset(p, s) + 1 .. Offset(p, s) + p[s].size
        THEN LET s == CHOOSE s \in 1 .. Len(p) : e \in Offset(p, s) + 1 .. Offset(p, s) + p[s].size
             IN AuthoredIdsOf(p[s])[e - Offset(p, s)]
        ELSE LET s == CHOOSE s \in 1 .. Len(p) : e \in SpareCards(p, s)
             IN SpareIdsOf(p[s])[e - SpareOffset(p, s)]]

FreshDom(p) == [s \in 1 .. NumSegs(p) |-> AuthoredCards(p, s)]

\* ---------------------------------------------------------------- storage
EmptyObj == [k \in {} |-> <<>>]

NoItem == [str |-> NULL, obj |-> EmptyObj]

StrItem(v) == [str |-> v, obj |-> EmptyObj]

\* JSON.stringify(value) of a segId -> list-of-ids object: the text is kept as the
\* structure it denotes, tagged "json".
JsonItem(value) == [str |-> "json", obj |-> value]

\* Items the engine never writes. The text of an object whose values are
\* strings, kept as segId -> the characters of the string; of an object whose
\* values are numbers, kept by its keys; of a value that is no object (a
\* number, a string, true, null); and a text that is not JSON at all.
StringsItem(value) == [str |-> "json-strings", obj |-> value]

NumbersItem(keys) == [str |-> "json-numbers", obj |-> [k \in keys |-> <<>>]]

ScalarItem == [str |-> "json-scalar", obj |-> EmptyObj]

TextItem == [str |-> "text", obj |-> EmptyObj]

\* A parsed JSON value: its shape ("lists", "strings", "numbers" or "scalar")
\* and, for an object, its entries.
JsonValue(shape, obj) == [shape |-> shape, obj |-> obj]

\* {} as a caller writes it.
EMPTY_OBJECT == JsonValue("lists", EmptyObj)

\* An exception in place of a value.
Thrown(name) == JsonValue(name, EmptyObj)

IsThrown(v) == v.shape \in {"SyntaxError", "SecurityError"}

\* JSON.parse(raw), line 76.
JSONparse(raw) ==
    IF raw.str = "json" THEN JsonValue("lists", raw.obj)
    ELSE IF raw.str = "json-strings" THEN JsonValue("strings", raw.obj)
    ELSE IF raw.str = "json-numbers" THEN JsonValue("numbers", raw.obj)
    ELSE IF raw.str = "json-scalar" THEN JsonValue("scalar", EmptyObj)
    ELSE Thrown("SyntaxError")

UidTokens == {"u1", "u2"}

Uids == UidTokens \cup {GUEST}

\* What the module-level script is left with when line 23 throws.
URI_ERROR == "URIError"

\* decodeURIComponent on the tokens of the model: "%31" is the escape of "1",
\* and a "%" that two hex digits do not follow raises URIError.
decodeURIComponent(s) ==
    IF s = "u%31" THEN "u1" ELSE IF s = "u%" THEN URI_ERROR ELSE s

SharedStorageKey(uid) == "starredCards_" \o GUEST

getStorageKey(uid) == "starredCards_" \o uid

StorageKeys == {MAIN_SITE_KEY, CACHE_KEY} \cup {getStorageKey(u) : u \in Uids}

\* The try block of Storage.get, lines 73-76; readOk = FALSE when getItem throws.
GetBody(ls, uid, fallback, readOk) ==
    LET raw == ls[getStorageKey(uid)]
    IN IF ~readOk THEN Thrown("SecurityError")
       ELSE IF raw.str = NULL THEN fallback
       ELSE JSONparse(raw)

StorageGetUncaught(ls, uid, fallback, readOk) == GetBody(ls, uid, fallback, readOk)

\* Storage.get(fallback), lines 71-81: what the try block gives, or the
\* fallback when it throws.
StorageGet(ls, uid, fallback, readOk) ==
    IF IsThrown(GetBody(ls, uid, fallback, readOk)) THEN fallback
    ELSE GetBody(ls, uid, fallback, readOk)

StorageSetSkipped(ls, uid, value, ok) == ls

\* Storage.set(value), lines 82-90; ok = FALSE when setItem throws.
StorageSet(ls, uid, value, ok) ==
    IF ok THEN [ls EXCEPT ![getStorageKey(uid)] = JsonItem(value)] ELSE ls

\* ------------------------------------------------------ identity resolver
uidFromUrl(loc) ==
    IF loc.uid # NULL THEN loc.uid ELSE IF loc.user # NULL THEN loc.user ELSE NULL

uidFromMainSite(ls, ss) ==
    IF ls[MAIN_SITE_KEY].str # NULL THEN ls[MAIN_SITE_KEY].str
    ELSE IF ss # NULL THEN ss ELSE NULL

cachedUid(ls) == ls[CACHE_KEY].str

ResolveUid(loc, ls, ss) ==
    IF uidFromUrl(loc) # NULL THEN decodeURIComponent(uidFromUrl(loc))
    ELSE IF uidFromMainSite(ls, ss) # NULL THEN uidFromMainSite(ls, ss)
    ELSE IF cachedUid(ls) # NULL THEN cachedUid(ls)
    ELSE GUEST

WritesCacheAlways(ls, uid) == uid # NULL

\* The test of line 33: setItem is called for a resolved identity that is not
\* the value read from the cache slot.
WritesCache(ls, uid) == uid # NULL /\ uid # cachedUid(ls)

\* lines 32-38; ok = FALSE when setItem throws (caught and logged).
PersistUid(ls, uid, ok) ==
    IF WritesCache(ls, uid) /\ ok
    THEN [ls EXCEPT ![CACHE_KEY] = StrItem(uid)]
    ELSE ls

\* ----------------------------------------------------------- star registry
\* new Set(ids): the members in order of first occurrence.
RECURSIVE NewSet(_)
NewSet(ids) ==
    IF ids = <<>> THEN <<>>
    ELSE LET init == NewSet(SubSeq(ids, 1, Len(ids) - 1))
             last == ids[Len(ids)]
         IN IF last \in Range(init) THEN init ELSE Append(init, last)

ArrayFromReversed(set) == [i \in DOMAIN set |-> set[Len(set) + 1 - i]]

\* Array.from(set): the members in insertion order.
ArrayFrom(set) == set

Has(set, id) == id \in Range(set)

\* init(), lines 116-122: one set per entry of the saved object.
Hydrate(saved) == [k \in DOMAIN saved |-> NewSet(saved[k])]

\* init(), lines 114-123, on what Storage.get returned: a value that is no
\* object is skipped (line 115); new Set(ids) iterates a list by its elements
\* and a string by its characters, and throws on a number, which the catch of
\* line 119 turns into a skipped entry.
Restore(saved) ==
    IF saved.shape \in {"lists", "strings"} THEN Hydrate(saved.obj) ELSE EmptyObj

SnapshotMerged(map) ==
    LET slot == localStorage[getStorageKey(USER_UID)]
        saved(k) == IF slot.str = "json" /\ k \in DOMAIN slot.obj THEN slot.obj[k] ELSE <<>>
    IN [k \in DOMAIN map |-> NewSet(ArrayFrom(map[k]) \o saved(k))]

\* toggleStar, lines 284-287: every segment's set as a list.
Snapshot(map) == [k \in DOMAIN map |-> ArrayFrom(map[k])]

\* starredMap.get(segId) || new Set()
GetSet(map, segId) == IF segId \in DOMAIN map THEN map[segId] ELSE <<>>

\* ------------------------------------------------------------ card indexer
\* setupCards, lines 152-156, over the cards found in one segment.
RECURSIVE IndexCards(_, _, _, _)
IndexCards(d, s, cards, idx) ==
    IF cards = <<>> THEN d
    ELSE LET e == Head(cards)
             fresh == d.cardIdAttr[e] = ""
             n == IF fresh THEN d.autoId + 1 ELSE d.autoId
             id == IF fresh THEN AutoCardId(n) ELSE d.cardIdAttr[e]
             d1 == [d EXCEPT !.autoId = n,
                             !.cardIdAttr[e] = id,
                             !.origIndex[e] = idx,
                             !.cardSegmentMap = (id :> s) @@ d.cardSegmentMap]
         IN IndexCards(d1, s, Tail(cards), idx + 1)

\* setupCards, lines 145-161, from segment s on.
RECURSIVE IndexSegments(_, _, _)
IndexSegments(p, d, s) ==
    IF s > NumSegs(p) THEN d
    ELSE LET d1 == IF d.segIdAttr[s] = ""
                   THEN [d EXCEPT !.segIdAttr[s] = DeriveSegId(p[s])]
                   ELSE d
             d2 == IndexCards(d1, s, d1.dom[s], 0)
             sid == d2.segIdAttr[s]
             d3 == IF sid \in DOMAIN d2.starredMap THEN d2
                   ELSE [d2 EXCEPT !.starredMap = (sid :> <<>>) @@ d2.starredMap]
         IN IndexSegments(p, d3, s + 1)

\* setupCards(): d holds the document and the engine's two maps.
setupCards(p, d) == IndexSegments(p, [d EXCEPT !.autoId = 0], 1)

\* applyInitialStarState, lines 164-175, for one card; cards the loop skips keep
\* the authored (unstarred) indicator.
InitialStar(d, e) ==
    LET id == d.cardIdAttr[e]
        segId == IF id \in DOMAIN d.cardSegmentMap
                 THEN d.segIdAttr[d.cardSegmentMap[id]] ELSE ""
    IN id # "" /\ segId # "" /\ Has(GetSet(d.starredMap, segId), id)

\* ----------------------------------------------------- reordering engine
\* Number(card.dataset.origIndex) || 0
OrigKey(oi, e) == IF oi[e] < 0 THEN 0 ELSE oi[e]

\* Array.prototype.sort with the comparator of line 319 (stable).
RECURSIVE SortByOrig(_, _)
SortByOrig(oi, cards) ==
    IF cards = <<>> THEN <<>>
    ELSE LET sorted == SortByOrig(oi, SubSeq(cards, 1, Len(cards) - 1))
             x == cards[Len(cards)]
             keep == {i \in DOMAIN sorted : OrigKey(oi, sorted[i]) <= OrigKey(oi, x)}
             k == IF keep = {} THEN 0 ELSE CHOOSE i \in keep : \A j \in keep : j <= i
         IN InsertAt(sorted, k + 1, x)

\* The starred cards of a list, in the order of the list (lines 313-317).
StarredOf(cards, ids, segSet) ==
    SelectSeq(cards, LAMBDA c : ids[c] # "" /\ Has(segSet, ids[c]))

UnstarredOf(cards, ids, segSet) ==
    SelectSeq(cards, LAMBDA c : ~(ids[c] # "" /\ Has(segSet, ids[c])))

\* The fragment reorderSegment builds (lines 310-323): starred cards in the
\* order found, then the unstarred cards sorted by original index.
ReorderFragment(cards, ids, oi, segSet) ==
    StarredOf(cards, ids, segSet) \o SortByOrig(oi, UnstarredOf(cards, ids, segSet))

InitCb == [k |-> "init", seg |-> 0, el |-> 0, frag |-> <<>>]

AttachCb(s, frag) == [k |-> "attach", seg |-> s, el |-> 0, frag |-> frag]

RepositionCb(e) == [k |-> "reposition", seg |-> 0, el |-> e, frag |-> <<>>]

\* reorderSegment(segmentEl), lines 302-332, on r = [dom, raf]: the cards move
\* into the fragment at once; the append is requested for the next frame.
reorderSegment(r, s, ids, oi, map, sids) ==
    IF Len(r.dom[s]) <= 1 THEN r
    ELSE [dom |-> [r.dom EXCEPT ![s] = <<>>],
          raf |-> Append(r.raf, AttachCb(s, ReorderFragment(r.dom[s], ids, oi, GetSet(map, sids[s]))))]

RECURSIVE ReorderAll(_, _, _, _, _, _)
ReorderAll(r, segs, ids, oi, map, sids) ==
    IF segs = <<>> THEN r
    ELSE ReorderAll(reorderSegment(r, Head(segs), ids, oi, map, sids), Tail(segs), ids, oi, map, sids)

\* Array.from(new Set(this.cardSegmentMap.values())), line 135: the segments
\* that hold an indexed card, in document order.
RECURSIVE SegmentsOf(_, _, _)
SegmentsOf(csm, s, n) ==
    IF s > n THEN <<>>
    ELSE (IF \E id \in DOMAIN csm : csm[id] = s THEN <<s>> ELSE <<>>) \o SegmentsOf(csm, s + 1, n)

\* A node has one parent: inserting a card elsewhere takes it out of the
\* segment or pending fragment that holds it.
DetachFromDom(d, e) == [s \in DOMAIN d |-> Without(d[s], e)]

CancelPending(q, e) == SelectSeq(q, LAMBDA cb : cb.el # e)

DetachFromFrags(q, e) == [i \in DOMAIN q |-> [q[i] EXCEPT !.frag = Without(q[i].frag, e)]]

\* segment.insertBefore(card, ref); ref = 0 stands for appendChild(card).
InsertBefore(cards, e, ref) ==
    LET rest == Without(cards, e)
    IN IF ref = 0 THEN Append(rest, e) ELSE InsertAt(rest, IndexOf(rest, ref), e)

\* cards.find((c) => !segSet.has(c.dataset.id)), line 347; 0 when none.
FirstUnstarred(cards, ids, segSet) ==
    LET un == {i \in DOMAIN cards : ~Has(segSet, ids[cards[i]])}
    IN IF un = {} THEN 0 ELSE cards[CHOOSE i \in un : \A j \in un : i <= j]

FromFirstCard(cards, ids, segSet) == 0

\* The reduce of line 350, 1-based: position of the last starred card, 0 when none.
LastStarIdx(cards, ids, segSet) ==
    LET st == {i \in DOMAIN cards : Has(segSet, ids[cards[i]])}
    IN IF st = {} THEN 0 ELSE CHOOSE i \in st : \A j \in st : j <= i

BeforeNodeFromStart(cards, ids, oi, segSet, e) ==
    LET big == {i \in DOMAIN cards : OrigKey(oi, cards[i]) > OrigKey(oi, e)}
    IN IF big = {} THEN 0 ELSE cards[CHOOSE i \in big : \A j \in big : i <= j]

\* The scan of lines 353-360; 0 when no later card has a larger original index.
BeforeNode(cards, ids, oi, segSet, e) ==
    LET from == LastStarIdx(cards, ids, segSet) + 1
        big == {i \in from .. Len(cards) : OrigKey(oi, cards[i]) > OrigKey(oi, e)}
    IN IF big = {} THEN 0 ELSE cards[CHOOSE i \in big : \A j \in big : i <= j]

\* The reference node repositionCard inserts the card before (lines 346-362).
RepositionRef(cards, ids, oi, segSet, e) ==
    IF Has(segSet, ids[e]) THEN FirstUnstarred(cards, ids, segSet)
    ELSE BeforeNode(cards, ids, oi, segSet, e)

\* ------------------------------------------------------------- operations
\* What the last operation was and did: the card and segment it acted on, the
\* answer given to a confirmation prompt ("none" when no prompt was shown),
\* whether it called Storage.set and requestAnimationFrame, and its outcome: for
\* a load, "first", "switched" (another identity than the document before) or
\* the outcome of the last Storage.set of the document before.
Op(op, e, s, outcome, set, frame) ==
    [op |-> op, el |-> e, seg |-> s, prompt |-> "none", outcome |-> outcome,
     set |-> set, raf |-> frame, ret |-> JsonValue("undefined", EmptyObj)]

\* The operation was a call that returned v.
Returned(o, v) == [o EXCEPT !.ret = v]

Prompted(o, confirm) == [o EXCEPT !.prompt = IF confirm THEN "yes" ELSE "no"]

\* A page load whose module-level script throws at line 23: nothing after that
\* line runs, so no identity is set, no listener is registered and no engine
\* is constructed; the document stays as parsed.
AbortedLoad(op, loc) ==
    /\ location' = loc
    /\ USER_UID' = NULL
    /\ starredMap' = EmptyObj
    /\ cardSegmentMap' = EmptyObj
    /\ segIdAttr' = [s \in 1 .. NumSegs(page) |-> ""]
    /\ cardIdAttr' = AuthoredIds(page)
    /\ origIndex' = [e \in Els(page) |-> -1]
    /\ dom' = FreshDom(page)
    /\ btnStarred' = [e \in Els(page) |-> FALSE]
    /\ loaded' = FALSE
    /\ raf' = <<>>
    /\ lastOp' = Op(op, 0, 0, "aborted", FALSE, FALSE)
    /\ UNCHANGED localStorage

\* A page load that runs to the end: the module-level script (lines 10-38),
\* then bootstrap and init() (lines 109-138) on the freshly parsed document.
\* cacheOk = FALSE when the write of the cache slot throws. The getItem of
\* Storage.get does not throw here: those of lines 16 and 19 just succeeded.
CompletedLoad(op, loc, uid, cacheOk) ==
    /\ LET ls == PersistUid(localStorage, uid, cacheOk)
           saved == StorageGet(ls, uid, EMPTY_OBJECT, TRUE)
           d0 == [dom |-> FreshDom(page),
                  segIdAttr |-> [s \in 1 .. NumSegs(page) |-> ""],
                  cardIdAttr |-> AuthoredIds(page),
                  origIndex |-> [e \in Els(page) |-> -1],
                  cardSegmentMap |-> EmptyObj,
                  starredMap |-> Restore(saved),
                  autoId |-> 0]
           d == setupCards(page, d0)
       IN /\ location' = loc
          /\ USER_UID' = uid
          /\ localStorage' = ls
          /\ starredMap' = d.starredMap
          /\ cardSegmentMap' = d.cardSegmentMap
          /\ segIdAttr' = d.segIdAttr
          /\ cardIdAttr' = d.cardIdAttr
          /\ origIndex' = d.origIndex
          /\ dom' = d.dom
          /\ btnStarred' = [e \in Els(page) |-> InitialStar(d, e)]
    /\ loaded' = TRUE
    /\ raf' = <<InitCb>>
    /\ lastOp' = Op(op, 0, 0,
                    IF ~loaded THEN "first" ELSE IF USER_UID' # USER_UID THEN "switched" ELSE lastSet,
                    WritesCache(localStorage, uid), TRUE)

\* A page load with the query parameters loc. Pending callbacks, events and
\* timers of the previous document are gone.
Load(op, loc, cacheOk) ==
    /\ loads < MaxLoads
    /\ cur = <<>>
    /\ LET uid == ResolveUid(loc, localStorage, sessionStorage)
       IN IF uid = URI_ERROR THEN AbortedLoad(op, loc) ELSE CompletedLoad(op, loc, uid, cacheOk)
    /\ cur' = <<>>
    /\ lastSet' = "none"
    /\ loads' = loads + 1
    /\ events' = <<>>
    /\ timers' = 0
    /\ UNCHANGED <<tabs, page, links, sessionStorage, toggles, reinits>>

\* The user opens the page, or reloads it, with one of the links.
Navigate(loc, cacheOk) == Load("load", loc, cacheOk)

\* setTimeout(() => window.location.reload(), 80), line 49, fires.
ReloadTimer(cacheOk) ==
    /\ loaded
    /\ timers > 0
    /\ Load("reload", location, cacheOk)

\* Another document of the origin (the main site, or another tab of this page)
\* sets key k to item it, or removes it when it = NoItem: the item changes and
\* a storage event is dispatched to this document if its script is listening.
OtherDocumentWrites(k, it) ==
    /\ cur = <<>>
    /\ Len(events) + timers < MaxEvents
    /\ localStorage[k] # it
    /\ localStorage' = [localStorage EXCEPT ![k] = it]
    /\ events' = IF loaded THEN Append(events, [key |-> k, newValue |-> it.str]) ELSE events
    /\ lastOp' = Op("write", 0, 0, "", FALSE, FALSE)
    /\ UNCHANGED <<tabs, timers, page, links, location, sessionStorage, loaded, USER_UID,
                   starredMap, cardSegmentMap, segIdAttr, cardIdAttr, origIndex, btnStarred,
                   dom, raf, cur, lastSet, toggles, loads, reinits>>

AnyKey(key) == TRUE

\* Line 43: the two keys the listener reacts to.
IsIdentityKey(key) == key = MAIN_SITE_KEY \/ key = CACHE_KEY

\* Lines 43-46: the event names an identity key and brings a value that is
\* not empty and not the active identity.
AnnouncesOtherUid(ev, uid) ==
    IsIdentityKey(ev.key) /\ ev.newValue # NULL /\ ev.newValue # uid

\* Why the listener did nothing.
Ignored(ev, uid) ==
    IF ~IsIdentityKey(ev.key) THEN "ignored-key"
    ELSE IF ev.newValue = NULL THEN "ignored-empty"
    ELSE "ignored-same"

\* The listener of lines 41-55 handles the oldest pending storage event.
\* setOk = FALSE when setItem (line 48) throws: the catch of line 52 logs it
\* and line 49 is not reached.
StorageEvent(setOk) ==
    /\ loaded
    /\ cur = <<>>
    /\ events # <<>>
    /\ events' = Tail(events)
    /\ LET ev == Head(events)
       IN IF AnnouncesOtherUid(ev, USER_UID)
          THEN IF setOk
               THEN /\ localStorage' = [localStorage EXCEPT ![CACHE_KEY] = StrItem(ev.newValue)]
                    /\ timers' = timers + 1
                    /\ lastOp' = Op("storage", 0, 0, "scheduled", TRUE, FALSE)
               ELSE /\ lastOp' = Op("storage", 0, 0, "failed", TRUE, FALSE)
                    /\ UNCHANGED <<localStorage, timers>>
          ELSE /\ lastOp' = Op("storage", 0, 0, Ignored(ev, USER_UID), FALSE, FALSE)
               /\ UNCHANGED <<localStorage, timers>>
    /\ UNCHANGED <<tabs, page, links, location, sessionStorage, loaded, USER_UID,
                   starredMap, cardSegmentMap, segIdAttr, cardIdAttr, origIndex, btnStarred,
                   dom, raf, cur, lastSet, toggles, loads, reinits>>

SegmentOfOrFirst(csm, id) == IF id \in DOMAIN csm THEN csm[id] ELSE 1

\* this.cardSegmentMap.get(id), line 253; 0 stands for undefined.
SegmentOf(csm, id) == IF id \in DOMAIN csm THEN csm[id] ELSE 0

Newest(segSet) == segSet[Len(segSet)]

\* The card the capacity rule removes (lines 270-271): the first of the set.
Oldest(segSet) == Head(segSet)

AtCapacityStrict(segSet, id) == ~Has(segSet, id) /\ Len(segSet) > MAX_STARS

\* The capacity test of line 265.
AtCapacity(segSet, id) == ~Has(segSet, id) /\ Len(segSet) >= MAX_STARS

ProceedsAlways(segSet, id, confirm) == TRUE

\* Lines 265-269: the toggle goes on unless the prompt was shown and declined.
Proceeds(segSet, id, confirm) == AtCapacity(segSet, id) => confirm

\* toggleStar(starBtn), lines 240-300, for the star control of card element e.
\* confirm is the answer to window.confirm; setOk = FALSE when setItem throws.
Toggle(e, confirm, setOk) ==
    /\ loaded
    /\ cur = <<>>
    /\ toggles < MaxToggles
    /\ Len(raf) < MaxPending
    /\ \E s \in DOMAIN dom : e \in Range(dom[s])
    /\ toggles' = toggles + 1
    /\ LET id == cardIdAttr[e]
       IN IF id = "" \/ SegmentOf(cardSegmentMap, id) = 0
          THEN /\ lastOp' = Op("toggle", e, 0, "rejected", FALSE, FALSE)
               /\ UNCHANGED <<starredMap, btnStarred, localStorage, raf, lastSet>>
          ELSE LET seg == SegmentOf(cardSegmentMap, id)
                   segId == segIdAttr[seg]
                   segSet == GetSet(starredMap, segId)
                   shown(o) == IF AtCapacity(segSet, id) THEN Prompted(o, confirm) ELSE o
               IN IF ~Proceeds(segSet, id, confirm)
                  THEN /\ lastOp' = shown(Op("toggle", e, seg, "declined", FALSE, FALSE))
                       /\ starredMap' = (segId :> segSet) @@ starredMap
                       /\ UNCHANGED <<btnStarred, localStorage, raf, lastSet>>
                  ELSE LET evict == AtCapacity(segSet, id) /\ Oldest(segSet) # ""
                           kept == IF evict THEN Without(segSet, Oldest(segSet)) ELSE segSet
                           wasIn == Has(kept, id)
                           next == IF wasIn THEN Without(kept, id) ELSE Append(kept, id)
                           map == (segId :> next) @@ starredMap
                       IN /\ starredMap' = map
                          /\ btnStarred' = [btnStarred EXCEPT ![e] = ~wasIn]
                          /\ localStorage' = StorageSet(localStorage, USER_UID, Snapshot(map), setOk)
                          /\ lastSet' = IF setOk THEN "ok" ELSE "failed"
                          /\ raf' = Append(raf, RepositionCb(e))
                          /\ lastOp' = shown(Op("toggle", e, seg,
                                                IF wasIn THEN "unstarred" ELSE IF evict THEN "evicted" ELSE "starred",
                                                TRUE, TRUE))
    /\ UNCHANGED <<tabs, events, timers, page, links, location, sessionStorage, loaded, USER_UID, cardSegmentMap,
                   segIdAttr, cardIdAttr, origIndex, dom, cur, loads, reinits>>

\* The browser starts a frame: the callbacks requested so far are the frame's.
BeginFrame ==
    /\ loaded
    /\ cur = <<>>
    /\ raf # <<>>
    /\ cur' = raf
    /\ raf' = <<>>
    /\ lastOp' = Op("frame", 0, 0, "", FALSE, FALSE)
    /\ UNCHANGED <<tabs, events, timers, page, links, location, localStorage, sessionStorage, loaded, USER_UID,
                   starredMap, cardSegmentMap, segIdAttr, cardIdAttr, origIndex, btnStarred,
                   dom, lastSet, toggles, loads, reinits>>

\* The callback of init(), lines 134-137: reorderSegment for every segment.
RunInitReorder ==
    /\ cur # <<>>
    /\ Head(cur).k = "init"
    /\ LET r == ReorderAll([dom |-> dom, raf |-> raf],
                           SegmentsOf(cardSegmentMap, 1, NumSegs(page)),
                           cardIdAttr, origIndex, starredMap, segIdAttr)
       IN /\ dom' = r.dom
          /\ raf' = r.raf
    /\ cur' = Tail(cur)
    /\ lastOp' = Op("init", 0, 0, "", FALSE, raf' # raf)
    /\ UNCHANGED <<tabs, events, timers, page, links, location, localStorage, sessionStorage, loaded, USER_UID,
                   starredMap, cardSegmentMap, segIdAttr, cardIdAttr, origIndex, btnStarred,
                   lastSet, toggles, loads, reinits>>

\* The deferred write of reorderSegment, lines 325-331: segmentEl.appendChild(frag)
\* appends what the fragment still holds.
RunAttach ==
    /\ cur # <<>>
    /\ Head(cur).k = "attach"
    /\ dom' = [dom EXCEPT ![Head(cur).seg] = dom[Head(cur).seg] \o Head(cur).frag]
    /\ cur' = Tail(cur)
    /\ lastOp' = Op("attach", 0, Head(cur).seg, "", FALSE, FALSE)
    /\ UNCHANGED <<tabs, events, timers, page, links, location, localStorage, sessionStorage, loaded, USER_UID,
                   starredMap, cardSegmentMap, segIdAttr, cardIdAttr, origIndex, btnStarred,
                   raf, lastSet, toggles, loads, reinits>>

\* The callback of repositionCard(card), lines 335-367.
RunReposition ==
    /\ cur # <<>>
    /\ Head(cur).k = "reposition"
    /\ LET e == Head(cur).el
           id == cardIdAttr[e]
       IN IF id \notin DOMAIN cardSegmentMap
          THEN /\ lastOp' = Op("reposition", e, 0, "rejected", FALSE, FALSE)
               /\ cur' = Tail(cur)
               /\ UNCHANGED <<dom, raf>>
          ELSE LET seg == cardSegmentMap[id]
                   segSet == GetSet(starredMap, segIdAttr[seg])
                   ref == RepositionRef(dom[seg], cardIdAttr, origIndex, segSet, e)
                   detached == DetachFromDom(dom, e)
               IN /\ dom' = [detached EXCEPT ![seg] = InsertBefore(dom[seg], e, ref)]
                  /\ cur' = DetachFromFrags(Tail(cur), e)
                  /\ raf' = DetachFromFrags(raf, e)
                  /\ lastOp' = Op("reposition", e, seg,
                                  IF Has(segSet, id) THEN "starred" ELSE "unstarred", FALSE, FALSE)
    /\ UNCHANGED <<tabs, events, timers, page, links, location, localStorage, sessionStorage, loaded, USER_UID,
                   starredMap, cardSegmentMap, segIdAttr, cardIdAttr, origIndex, btnStarred,
                   lastSet, toggles, loads, reinits>>

Next ==
    \/ \E loc \in links, cacheOk \in BOOLEAN : Navigate(loc, cacheOk)
    \/ \E e \in Els(page), confirm \in BOOLEAN, setOk \in BOOLEAN : Toggle(e, confirm, setOk)
    \/ BeginFrame
    \/ RunInitReorder
    \/ RunAttach
    \/ RunReposition

\* ------------------------------------------------------------ further tabs
TabIds == {"a", "b"}

\* A tab that is not open. A tab has the query parameters of its URL, the
\* identity its script resolved, the storage events dispatched to it and not
\* yet handled, and whether a reload is scheduled; listening says whether the
\* listener of line 41 was registered.
ClosedTab ==
    [open |-> FALSE, listening |-> FALSE, location |-> [uid |-> NULL, user |-> NULL],
     uid |-> NULL, events |-> <<>>, reload |-> FALSE]

NoTabs == [t \in TabIds |-> ClosedTab]

\* setItem(key, new) by tab sender when the item was old: a storage event
\* goes to every other document of the origin, if the value changed.
Dispatch(tb, sender, key, old, new) ==
    [t \in TabIds |->
        IF t # sender /\ tb[t].listening /\ old # new
        THEN [tb[t] EXCEPT !.events = Append(@, [key |-> key, newValue |-> new])]
        ELSE tb[t]]

\* The module-level script (lines 10-55) runs in tab t with query parameters
\* loc; the tab's session storage is empty and its writes succeed.
TabScript(t, loc) ==
    LET uid == ResolveUid(loc, localStorage, NULL)
        ls == PersistUid(localStorage, uid, TRUE)
        fresh == [open |-> TRUE, listening |-> uid # URI_ERROR, location |-> loc,
                  uid |-> IF uid = URI_ERROR THEN NULL ELSE uid,
                  events |-> <<>>, reload |-> FALSE]
    IN IF uid = URI_ERROR
       THEN /\ tabs' = [tabs EXCEPT ![t] = fresh]
            /\ UNCHANGED localStorage
       ELSE /\ localStorage' = ls
            /\ tabs' = Dispatch([tabs EXCEPT ![t] = fresh], t, CACHE_KEY,
                                 cachedUid(localStorage), cachedUid(ls))

\* The user opens the page in tab t with one of the links.
TabOpen(t, loc) ==
    /\ ~tabs[t].open
    /\ TabScript(t, loc)
    /\ UNCHANGED <<page, links, location, sessionStorage, loaded, USER_UID, starredMap,
                   cardSegmentMap, segIdAttr, cardIdAttr, origIndex, btnStarred, dom, raf, cur,
                   lastOp, lastSet, toggles, loads, events, timers, reinits>>

\* window.location.reload() of line 49 in tab t: the script runs again with
\* the same URL.
TabReload(t) ==
    /\ tabs[t].reload
    /\ TabScript(t, tabs[t].location)
    /\ UNCHANGED <<page, links, location, sessionStorage, loaded, USER_UID, starredMap,
                   cardSegmentMap, segIdAttr, cardIdAttr, origIndex, btnStarred, dom, raf, cur,
                   lastOp, lastSet, toggles, loads, events, timers, reinits>>

\* The listener of lines 41-55 in tab t handles the oldest event of the tab.
TabStorageEvent(t) ==
    /\ tabs[t].listening
    /\ tabs[t].events # <<>>
    /\ LET ev == Head(tabs[t].events)
           rest == [tabs EXCEPT ![t].events = Tail(@)]
       IN IF AnnouncesOtherUid(ev, tabs[t].uid)
          THEN /\ localStorage' = [localStorage EXCEPT ![CACHE_KEY] = StrItem(ev.newValue)]
               /\ tabs' = Dispatch([rest EXCEPT ![t].reload = TRUE], t, CACHE_KEY,
                                    cachedUid(localStorage), ev.newValue)
          ELSE /\ tabs' = rest
               /\ UNCHANGED localStorage
    /\ UNCHANGED <<page, links, location, sessionStorage, loaded, USER_UID, starredMap,
                   cardSegmentMap, segIdAttr, cardIdAttr, origIndex, btnStarred, dom, raf, cur,
                   lastOp, lastSet, toggles, loads, events, timers, reinits>>

\* ------------------------------------------------------------ initial states
NoOp == Op("none", 0, 0, "", FALSE, FALSE)

NoQuery == [uid |-> NULL, user |-> NULL]

\* A browser tab before the page's script has run, given the document served,
\* the links of the user and the storage left by earlier visits.
Blank(p, lk, ls, ss) ==
    /\ loads = 0
    /\ page = p
    /\ links = lk
    /\ location = NoQuery
    /\ localStorage = ls
    /\ sessionStorage = ss
    /\ loaded = FALSE
    /\ USER_UID = NULL
    /\ starredMap = EmptyObj
    /\ cardSegmentMap = EmptyObj
    /\ segIdAttr = [s \in 1 .. NumSegs(p) |-> ""]
    /\ cardIdAttr = AuthoredIds(p)
    /\ origIndex = [e \in Els(p) |-> -1]
    /\ btnStarred = [e \in Els(p) |-> FALSE]
    /\ dom = FreshDom(p)
    /\ raf = <<>>
    /\ cur = <<>>
    /\ lastOp = NoOp
    /\ lastSet = "none"
    /\ toggles = 0
    /\ events = <<>>
    /\ timers = 0
    /\ reinits = 0
    /\ tabs = NoTabs

EmptyStorage == [k \in StorageKeys |-> NoItem]

CARD_GRID == <<"c","a","r","d","-","g","r","i","d">>

\* One grid of six cards: one more than the capacity.
GridPage == <<[idAttr |-> <<>>, cls |-> CARD_GRID, size |-> MAX_STARS + 1]>>

\* The snapshot an earlier visit of identity uid left after starring, in this
\* order, the cards numbered by stars in the only segment of p.
VisitedStorage(p, uid, stars) ==
    [EmptyStorage EXCEPT
        ![CACHE_KEY] = StrItem(uid),
        ![getStorageKey(uid)] =
            JsonItem(DeriveSegId(p[1]) :> [i \in DOMAIN stars |-> AutoCardId(stars[i])])]

\* One grid of five cards, original indices 0..4.
FivePage == <<[idAttr |-> <<>>, cls |-> CARD_GRID, size |-> MAX_STARS]>>

\* Star orders of earlier visits: each is the snapshot written by the visit
\* that starred exactly these cards, one toggle each, in this order.
PriorStars == {<<3, 5, 1, 6>>, <<3, 5, 1, 6, 2>>}

PriorStarsOfFive == {<<4, 2>>, <<2, 4>>}

\* A guest's tab on the six-card grid, first visit or returning, or a
\* returning guest's tab on the five-card grid.
Init ==
    \/ Blank(GridPage, {NoQuery}, EmptyStorage, NULL)
    \/ \E stars \in PriorStars :
          Blank(GridPage, {NoQuery}, VisitedStorage(GridPage, GUEST, stars), NULL)
    \/ \E stars \in PriorStarsOfFive :
          Blank(FivePage, {NoQuery}, VisitedStorage(FivePage, GUEST, stars), NULL)

Spec == Init /\ [][Next]_vars

\* ---- two identities on one browser: u1 by URL token, u2 by the main site
JOB_GRID == <<"j","o","b","-","g","r","i","d">>

JOBS_ID == <<"T","o","p"," "," ","J","o","b","s">>

IsoCards == 3

IsoPage == <<[idAttr |-> JOBS_ID, cls |-> JOB_GRID, size |-> IsoCards]>>

IsoLinks == {NoQuery, [uid |-> "u1", user |-> NULL]}

MainSiteSignedIn(ls, uid) == [ls EXCEPT ![MAIN_SITE_KEY] = StrItem(uid)]

InitIso ==
    \/ Blank(IsoPage, IsoLinks, MainSiteSignedIn(EmptyStorage, "u2"), NULL)
    \/ Blank(IsoPage, IsoLinks,
              MainSiteSignedIn(VisitedStorage(IsoPage, "u1", <<2, 1>>), "u2"), NULL)

SpecIso == InitIso /\ [][Next]_vars

\* ---- identity: every combination of the identity sources, and the main site
\* or another tab changing them while the page is open
IdPage == <<[idAttr |-> <<>>, cls |-> CARD_GRID, size |-> 2]>>

\* Query strings as URLSearchParams.get returns their parameters.
IdLinks ==
    {NoQuery,
     [uid |-> "u1", user |-> NULL],
     [uid |-> NULL, user |-> "u2"],
     [uid |-> "u1", user |-> "u2"],
     [uid |-> "u%31", user |-> NULL],
     [uid |-> "u%", user |-> NULL]}

\* The items other documents of the origin write: the main site signs a user in
\* or out, another tab of this page resolves an identity or saves a star.
IdWrites ==
    {<<MAIN_SITE_KEY, StrItem("u1")>>, <<MAIN_SITE_KEY, NoItem>>,
     <<CACHE_KEY, StrItem("u2")>>,
     <<getStorageKey("u1"), JsonItem(DeriveSegId(IdPage[1]) :> <<AutoCardId(1)>>)>>}

InitId ==
    \E main \in {NULL, "u2"}, ss \in {NULL, "u1"}, cache \in {NULL, "u1", GUEST} :
        Blank(IdPage, IdLinks,
              [EmptyStorage EXCEPT ![MAIN_SITE_KEY] = StrItem(main), ![CACHE_KEY] = StrItem(cache)],
              ss)

NextId ==
    \/ \E loc \in links, cacheOk \in BOOLEAN : Navigate(loc, cacheOk)
    \/ \E w \in IdWrites : OtherDocumentWrites(w[1], w[2])
    \/ \E setOk \in BOOLEAN : StorageEvent(setOk)
    \/ \E cacheOk \in BOOLEAN : ReloadTimer(cacheOk)
    \/ BeginFrame
    \/ RunInitReorder
    \/ RunAttach

SpecId == InitId /\ [][NextId]_vars

\* ---- two tabs of the page on one origin
TabLinks ==
    {NoQuery,
     [uid |-> "u1", user |-> NULL],
     [uid |-> "u2", user |-> NULL],
     [uid |-> "u%", user |-> NULL]}

\* No tab is open yet; the main site has signed a user in or not, and the
\* cache slot is empty or left by an earlier visit.
InitTabs ==
    \E main \in {NULL, "u1", "u2"}, cache \in {NULL, "u1", GUEST} :
        Blank(IdPage, TabLinks,
              [EmptyStorage EXCEPT ![MAIN_SITE_KEY] = StrItem(main), ![CACHE_KEY] = StrItem(cache)],
              NULL)

NextTabs ==
    \/ \E t \in TabIds, loc \in links : TabOpen(t, loc)
    \/ \E t \in TabIds : TabStorageEvent(t)
    \/ \E t \in TabIds : TabReload(t)

\* The browser delivers every dispatched event and fires every timer.
TabsFairness ==
    \A t \in TabIds : WF_vars(TabStorageEvent(t)) /\ WF_vars(TabReload(t))

SpecTabs == InitTabs /\ [][NextTabs]_vars /\ TabsFairness

\* ---- the persistence gateway on well-formed and malformed slots
\* Storage is a top-level const of a classic script, so other scripts of the
\* page can call it. Storage.get(fallback) is called; readOk = FALSE when
\* getItem throws.
CallStorageGet(fallback, readOk) ==
    /\ loaded
    /\ cur = <<>>
    /\ lastOp' = Returned(Op("get", 0, 0, "", FALSE, FALSE),
                          StorageGet(localStorage, USER_UID, fallback, readOk))
    /\ UNCHANGED <<tabs, events, timers, page, links, location, localStorage, sessionStorage, loaded,
                   USER_UID, starredMap, cardSegmentMap, segIdAttr, cardIdAttr, origIndex,
                   btnStarred, dom, raf, cur, lastSet, toggles, loads, reinits>>

\* Storage.set(value) is called; ok = FALSE when JSON.stringify or setItem throws.
CallStorageSet(value, ok) ==
    /\ loaded
    /\ cur = <<>>
    /\ localStorage' = StorageSet(localStorage, USER_UID, value, ok)
    /\ lastOp' = Op("set", 0, 0, IF ok THEN "ok" ELSE "failed", FALSE, FALSE)
    /\ UNCHANGED <<tabs, events, timers, page, links, location, sessionStorage, loaded,
                   USER_UID, starredMap, cardSegmentMap, segIdAttr, cardIdAttr, origIndex,
                   btnStarred, dom, raf, cur, lastSet, toggles, loads, reinits>>

\* The characters of "card-1".
CARD_1 == <<"c","a","r","d","-","1">>

StoreSegId == DeriveSegId(IdPage[1])

\* Contents of the guest's slot: none, text that is not JSON, JSON that is no
\* object, {"card-grid": "card-1"}, {"card-grid": 7}, and the well-formed
\* {"card-grid": ["card-2"]}.
StoreSlots ==
    {NoItem, TextItem, ScalarItem, StringsItem(StoreSegId :> CARD_1), NumbersItem({StoreSegId}),
     JsonItem(StoreSegId :> <<AutoCardId(2)>>)}

\* Fallbacks a caller supplies: {} and {"other": ["x"]}.
Fallbacks == {EMPTY_OBJECT, JsonValue("lists", "other" :> <<"x">>)}

\* Values a caller stores: {} and {"card-grid": ["card-1"]}.
StoreValues == {EmptyObj, StoreSegId :> <<AutoCardId(1)>>}

InitStore ==
    \E slot \in StoreSlots :
        Blank(IdPage, {NoQuery}, [EmptyStorage EXCEPT ![getStorageKey(GUEST)] = slot], NULL)

NextStore ==
    \/ \E loc \in links, cacheOk \in BOOLEAN : Navigate(loc, cacheOk)
    \/ \E fallback \in Fallbacks, readOk \in BOOLEAN : CallStorageGet(fallback, readOk)
    \/ \E value \in StoreValues, ok \in BOOLEAN : CallStorageSet(value, ok)
    \/ \E e \in Els(page), confirm \in BOOLEAN, setOk \in BOOLEAN : Toggle(e, confirm, setOk)
    \/ BeginFrame
    \/ RunInitReorder
    \/ RunAttach
    \/ RunReposition

SpecStore == InitStore /\ [][NextStore]_vars

\* ---- the indexer run again, on authored identifiers and on added cards
\* app.destroy(); app.init() through the handle window.__openrootApp (line
\* 439): init() runs again on the same engine and the same document. Saved
\* entries replace the sets of their segments; cards that are in a pending
\* fragment are not in the document and are not found by the selectors.
Reinit ==
    /\ loaded
    /\ cur = <<>>
    /\ reinits < MaxReinits
    /\ Len(raf) < MaxPending
    /\ LET saved == StorageGet(localStorage, USER_UID, EMPTY_OBJECT, TRUE)
           d0 == [dom |-> dom,
                  segIdAttr |-> segIdAttr,
                  cardIdAttr |-> cardIdAttr,
                  origIndex |-> origIndex,
                  cardSegmentMap |-> cardSegmentMap,
                  starredMap |-> Restore(saved) @@ starredMap,
                  autoId |-> 0]
           d == setupCards(page, d0)
           attached == UNION {Range(dom[s]) : s \in DOMAIN dom}
       IN /\ starredMap' = d.starredMap
          /\ cardSegmentMap' = d.cardSegmentMap
          /\ segIdAttr' = d.segIdAttr
          /\ cardIdAttr' = d.cardIdAttr
          /\ origIndex' = d.origIndex
          /\ btnStarred' = [e \in Els(page) |->
                                IF e \in attached THEN InitialStar(d, e) ELSE btnStarred[e]]
    /\ raf' = Append(raf, InitCb)
    /\ lastOp' = Op("reinit", 0, 0, "", FALSE, TRUE)
    /\ reinits' = reinits + 1
    /\ UNCHANGED <<tabs, events, timers, page, links, location, localStorage, sessionStorage, loaded,
                   USER_UID, dom, cur, lastSet, toggles, loads>>

\* A script of the page appends the spare card e to segment s.
AddCard(s, e) ==
    /\ loaded
    /\ cur = <<>>
    /\ e \in SpareCards(page, s)
    /\ \A x \in DOMAIN dom : e \notin Range(dom[x])
    /\ dom' = [dom EXCEPT ![s] = Append(dom[s], e)]
    /\ lastOp' = Op("add", e, s, "", FALSE, FALSE)
    /\ UNCHANGED <<tabs, events, timers, page, links, location, localStorage, sessionStorage, loaded,
                   USER_UID, starredMap, cardSegmentMap, segIdAttr, cardIdAttr, origIndex,
                   btnStarred, raf, cur, lastSet, toggles, loads, reinits>>

\* One grid of three cards to which a script adds a fourth.
GrowingPage == <<[idAttr |-> <<>>, cls |-> CARD_GRID, size |-> 3, spare |-> 1]>>

\* One grid of three cards, the second and third authored with data-id.
AuthoredPage ==
    <<[idAttr |-> <<>>, cls |-> CARD_GRID, size |-> 3, ids |-> <<"", "intro", "card-1">>]>>

InitIndex ==
    \/ Blank(GrowingPage, {NoQuery}, EmptyStorage, NULL)
    \/ Blank(GrowingPage, {NoQuery}, VisitedStorage(GrowingPage, GUEST, <<2>>), NULL)
    \/ Blank(AuthoredPage, {NoQuery}, EmptyStorage, NULL)

NextIndex ==
    \/ \E loc \in links, cacheOk \in BOOLEAN : Navigate(loc, cacheOk)
    \/ \E e \in Els(page), confirm \in BOOLEAN, setOk \in BOOLEAN : Toggle(e, confirm, setOk)
    \/ Reinit
    \/ \E s \in 1 .. NumSegs(page), e \in Els(page) : AddCard(s, e)
    \/ BeginFrame
    \/ RunInitReorder
    \/ RunAttach
    \/ RunReposition

SpecIndex == InitIndex /\ [][NextIndex]_vars

\* ---- two segments on one page
\* Cards in each of the twin grids: together one more than the capacity.
TwinCards == (MAX_STARS + 1) \div 2

\* Two grids with the same class list and no element id.
TwinPage ==
    <<[idAttr |-> <<>>, cls |-> CARD_GRID, size |-> TwinCards],
      [idAttr |-> <<>>, cls |-> CARD_GRID, size |-> TwinCards]>>

\* Two grids told apart by their class.
TwoGridsPage ==
    <<[idAttr |-> <<>>, cls |-> CARD_GRID, size |-> 2],
      [idAttr |-> <<>>, cls |-> JOB_GRID, size |-> 2]>>

\* A guest's tab on the twin grids, first visit or after a visit that starred
\* the first five cards of the page, or on the two grids of different class.
InitTwin ==
    \/ Blank(TwinPage, {NoQuery}, EmptyStorage, NULL)
    \/ Blank(TwinPage, {NoQuery}, VisitedStorage(TwinPage, GUEST, <<1, 2, 3, 4, 5>>), NULL)
    \/ Blank(TwoGridsPage, {NoQuery}, EmptyStorage, NULL)

SpecTwin == InitTwin /\ [][Next]_vars

\* ---- toggle requests that cannot be resolved
\* A click on a star control that no card encloses: closest() gives null and
\* toggleStar returns at line 245.
ToggleStray ==
    /\ loaded
    /\ cur = <<>>
    /\ toggles < MaxToggles
    /\ toggles' = toggles + 1
    /\ lastOp' = Op("toggle", 0, 0, "rejected", FALSE, FALSE)
    /\ UNCHANGED <<tabs, events, timers, page, links, location, localStorage, sessionStorage, loaded,
                   USER_UID, starredMap, cardSegmentMap, segIdAttr, cardIdAttr, origIndex,
                   btnStarred, dom, raf, cur, lastSet, loads, reinits>>

PROMO == "promo"

\* One grid of two cards to which a script adds two more after indexing, one
\* without data-id and one with.
LatePage ==
    <<[idAttr |-> <<>>, cls |-> CARD_GRID, size |-> 2, spare |-> 2, spareIds |-> <<"", PROMO>>]>>

InitLate ==
    \/ Blank(LatePage, {NoQuery}, EmptyStorage, NULL)
    \/ Blank(LatePage, {NoQuery}, VisitedStorage(LatePage, GUEST, <<2>>), NULL)

NextLate ==
    \/ \E loc \in links, cacheOk \in BOOLEAN : Navigate(loc, cacheOk)
    \/ \E e \in Els(page), confirm \in BOOLEAN, setOk \in BOOLEAN : Toggle(e, confirm, setOk)
    \/ ToggleStray
    \/ \E s \in 1 .. NumSegs(page), e \in Els(page) : AddCard(s, e)
    \/ BeginFrame
    \/ RunInitReorder
    \/ RunAttach
    \/ RunReposition

SpecLate == InitLate /\ [][NextLate]_vars

\* ---- a loaded page in any DOM order with any cards starred
FreeCards == 5

FreePage == <<[idAttr |-> <<>>, cls |-> CARD_GRID, size |-> FreeCards]>>

\* The subsets of 1..n as ascending sequences.
RECURSIVE AscendingSeqs(_)
AscendingSeqs(n) ==
    IF n = 0 THEN {<<>>}
    ELSE AscendingSeqs(n - 1) \cup {Append(q, n) : q \in AscendingSeqs(n - 1)}

\* Page p of one segment, loaded by identity uid over the storage ls and idle,
\* its cards in DOM order order; budget toggles are left.
LoadedAs(p, order, ls, uid, budget) ==
    LET d == setupCards(p, [dom |-> FreshDom(p),
                            segIdAttr |-> [s \in 1 .. NumSegs(p) |-> ""],
                            cardIdAttr |-> AuthoredIds(p),
                            origIndex |-> [e \in Els(p) |-> -1],
                            cardSegmentMap |-> EmptyObj,
                            starredMap |-> Restore(StorageGet(ls, uid, EMPTY_OBJECT, TRUE)),
                            autoId |-> 0])
    IN /\ loads = MaxLoads
       /\ page = p
       /\ links = {NoQuery}
       /\ location = NoQuery
       /\ localStorage = ls
       /\ sessionStorage = NULL
       /\ loaded = TRUE
       /\ USER_UID = uid
       /\ starredMap = d.starredMap
       /\ cardSegmentMap = d.cardSegmentMap
       /\ segIdAttr = d.segIdAttr
       /\ cardIdAttr = d.cardIdAttr
       /\ origIndex = d.origIndex
       /\ btnStarred = [e \in Els(p) |-> InitialStar(d, e)]
       /\ dom = [s \in 1 .. NumSegs(p) |-> order]
       /\ raf = <<>>
       /\ cur = <<>>
       /\ lastOp = NoOp
       /\ lastSet = "none"
       /\ toggles = MaxToggles - budget
       /\ events = <<>>
       /\ timers = 0
       /\ reinits = 0
       /\ tabs = NoTabs

\* The same for a guest who starred the cards numbered by stars on an earlier
\* visit.
Loaded(p, order, stars, budget) ==
    LoadedAs(p, order, VisitedStorage(p, GUEST, stars), GUEST, budget)

\* app.reorderSegment(seg) called through the handle window.__openrootApp
\* (line 439) on segment element s.
CallReorderSegment(s) ==
    /\ loaded
    /\ cur = <<>>
    /\ Len(raf) < MaxPending
    /\ LET r == reorderSegment([dom |-> dom, raf |-> raf], s, cardIdAttr, origIndex,
                                starredMap, segIdAttr)
       IN /\ dom' = r.dom
          /\ raf' = r.raf
    /\ lastOp' = Op("reorder", 0, s, "", FALSE, raf' # raf)
    /\ UNCHANGED <<tabs, events, timers, page, links, location, localStorage, sessionStorage, loaded, USER_UID,
                   starredMap, cardSegmentMap, segIdAttr, cardIdAttr, origIndex, btnStarred,
                   cur, lastSet, toggles, loads, reinits>>

InitFree(budget) ==
    \E order \in Perms(AuthoredCards(FreePage, 1)), stars \in AscendingSeqs(FreeCards) :
        Loaded(FreePage, order, stars, budget)

\* The full reorder alone, from any DOM order and starred interleaving.
InitReorder == InitFree(0)

NextReorder ==
    \/ \E s \in 1 .. NumSegs(page) : CallReorderSegment(s)
    \/ BeginFrame
    \/ RunAttach

SpecReorder == InitReorder /\ [][NextReorder]_vars

\* One toggle and its reposition, from any DOM order and starred interleaving.
InitOps == InitFree(1)

NextOps ==
    \/ \E e \in Els(page), confirm \in BOOLEAN, setOk \in BOOLEAN : Toggle(e, confirm, setOk)
    \/ BeginFrame
    \/ RunReposition

SpecOps == InitOps /\ [][NextOps]_vars

\* ---- toggles on a page whose startup reorder has completed
\* Star lists left by earlier visits on the six-card grid.
SettledStars == {<<>>, <<4, 2>>, <<3, 5, 1, 6>>, <<3, 5, 1, 6, 2>>}

\* The six-card grid loaded by a returning guest, both frames of the startup
\* reorder run: the DOM order is the fragment reorderSegment builds from the
\* authored order.
InitSettled ==
    \E order \in Perms(AuthoredCards(GridPage, 1)), stars \in SettledStars :
        /\ Loaded(GridPage, order, stars, MaxToggles)
        /\ order = ReorderFragment(AuthoredCards(GridPage, 1), cardIdAttr, origIndex,
                                    GetSet(starredMap, segIdAttr[1]))

SpecSettled == InitSettled /\ [][NextOps]_vars

\* ---- a card starred and unstarred again
\* People who share the browser: a guest who has starred nothing yet, so that
\* the guest's slot is absent, and two users whose earlier visits left a
\* snapshot in their own slots.
RoundUsers == {GUEST, "u1", "u2"}

\* The storage when uid, the identity the last load resolved (lines 32-35),
\* opens the page.
SharedStorage(uid) ==
    [EmptyStorage EXCEPT
        ![CACHE_KEY] = StrItem(uid),
        ![getStorageKey("u1")] =
            JsonItem(DeriveSegId(GridPage[1]) :> <<AutoCardId(4), AutoCardId(2)>>),
        ![getStorageKey("u2")] =
            JsonItem(DeriveSegId(GridPage[1])
                         :> <<AutoCardId(3), AutoCardId(5), AutoCardId(1), AutoCardId(6)>>)]

\* The six-card grid loaded by one of them, the startup reorder completed.
InitRound ==
    \E order \in Perms(AuthoredCards(GridPage, 1)), uid \in RoundUsers :
        /\ LoadedAs(GridPage, order, SharedStorage(uid), uid, MaxToggles)
        /\ order = ReorderFragment(AuthoredCards(GridPage, 1), cardIdAttr, origIndex,
                                    GetSet(starredMap, segIdAttr[1]))

SpecRound == InitRound /\ [][NextOps]_vars

\* ---- another tab of the page under the same identity
\* The snapshots another tab of the guest saves with its own toggles: what its
\* registry holds after starring card-6 alone, and after starring five cards.
OtherTabSnapshots ==
    {DeriveSegId(GridPage[1]) :> <<AutoCardId(6)>>,
     DeriveSegId(GridPage[1])
         :> <<AutoCardId(5), AutoCardId(4), AutoCardId(3), AutoCardId(2), AutoCardId(1)>>}

\* The guest's tab has loaded and settled; it toggles and runs its frames
\* while the other tab saves its snapshots to the same slot (Storage.set,
\* line 85) and the listener of this tab receives the storage events.
NextShare ==
    \/ \E value \in OtherTabSnapshots :
          OtherDocumentWrites(getStorageKey(GUEST), JsonItem(value))
    \/ \E setOk \in BOOLEAN : StorageEvent(setOk)
    \/ \E e \in Els(page), confirm \in BOOLEAN, setOk \in BOOLEAN : Toggle(e, confirm, setOk)
    \/ BeginFrame
    \/ RunReposition

SpecShare == InitSettled /\ [][NextShare]_vars

\* ---- toggles between init() and the first frame
\* A click that init()'s handler (line 128) receives while the callback of
\* line 134 is still waiting for its frame.
EarlyToggle(e, confirm, setOk) ==
    /\ raf # <<>>
    /\ Head(raf) = InitCb
    /\ Toggle(e, confirm, setOk)

\* A guest's tab on the six-card grid, first visit or after a visit that
\* starred two cards.
InitRace ==
    \/ Blank(GridPage, {NoQuery}, EmptyStorage, NULL)
    \/ Blank(GridPage, {NoQuery}, VisitedStorage(GridPage, GUEST, <<4, 2>>), NULL)

NextRace ==
    \/ \E loc \in links, cacheOk \in BOOLEAN : Navigate(loc, cacheOk)
    \/ \E e \in Els(page), confirm \in BOOLEAN, setOk \in BOOLEAN : EarlyToggle(e, confirm, setOk)
    \/ BeginFrame
    \/ RunInitReorder
    \/ RunAttach
    \/ RunReposition

SpecRace == InitRace /\ [][NextRace]_vars

\* ------------------------------------------------------------------ claims
\* The starred set of segment element s.
SegSet(s) == GetSet(starredMap, segIdAttr[s])

\* The starred set, before a toggle, of the segment of the card the toggle names.
SetOfToggled == GetSet(starredMap, segIdAttr[cardSegmentMap[cardIdAttr[lastOp'.el]]])

ToggleStep == toggles' = toggles + 1 /\ lastOp'.op = "toggle" /\ lastOp'.outcome # "rejected"

\* The toggle names a card that is not starred in a segment holding MAX_STARS stars.
ToggleOnFull ==
    /\ ToggleStep
    /\ ~Has(SetOfToggled, cardIdAttr[lastOp'.el])
    /\ Len(SetOfToggled) = MAX_STARS

LoadStep == loads' = loads + 1

\* C1: in every state after startup, whatever was hydrated and whatever toggles
\* were made and answered, no segment's starred set has more than MAX_STARS members.
C1_CapacityNeverExceeded ==
    /\ \A k \in DOMAIN starredMap : Len(starredMap[k]) <= MAX_STARS
    /\ \A s \in DOMAIN segIdAttr : Len(SegSet(s)) <= MAX_STARS

\* A sixth star was requested in a full segment and went through by eviction.
C1_Witness ==
    /\ lastOp.op = "toggle"
    /\ lastOp.outcome = "evicted"
    /\ Len(SegSet(lastOp.seg)) = MAX_STARS

\* C2: a toggle on an unstarred card of a full segment whose prompt is declined
\* changes no starred set, no indicator, no DOM order and no storage item, and
\* issues neither a Storage.set nor a reposition.
C2_DeclineChangesNothing ==
    [][(ToggleOnFull /\ lastOp'.prompt = "no")
        => /\ starredMap' = starredMap
           /\ btnStarred' = btnStarred
           /\ dom' = dom
           /\ localStorage' = localStorage
           /\ raf' = raf
           /\ cur' = cur
           /\ ~lastOp'.set
           /\ ~lastOp'.raf]_vars

\* A prompt was declined on a full segment.
C2_Witness ==
    /\ lastOp.op = "toggle"
    /\ lastOp.prompt = "no"
    /\ lastOp.outcome = "declined"
    /\ Len(SegSet(lastOp.seg)) = MAX_STARS
    /\ ~Has(SegSet(lastOp.seg), cardIdAttr[lastOp.el])

\* C3: a confirmed toggle on an unstarred card of a full segment removes exactly
\* the earliest-inserted member and adds the card as the newest: the new set is
\* the old one without its first member, in the same order, followed by the card.
C3_EvictsEarliestInserted ==
    [][(ToggleOnFull /\ lastOp'.prompt = "yes")
        => LET seg == cardSegmentMap[cardIdAttr[lastOp'.el]]
           IN /\ GetSet(starredMap', segIdAttr[seg]) = Append(Tail(SetOfToggled), cardIdAttr[lastOp'.el])
              /\ Len(GetSet(starredMap', segIdAttr[seg])) = MAX_STARS
              /\ \A k \in DOMAIN starredMap : k # segIdAttr[seg] => starredMap'[k] = starredMap[k]]_vars

\* An eviction happened although the first card of the segment in DOM order is
\* still starred: the victim was chosen by insertion order, not DOM order.
C3_Witness ==
    /\ lastOp.op = "toggle"
    /\ lastOp.prompt = "yes"
    /\ lastOp.outcome = "evicted"
    /\ dom[lastOp.seg] # <<>>
    /\ Has(SegSet(lastOp.seg), cardIdAttr[Head(dom[lastOp.seg])])
    /\ SegSet(lastOp.seg)[MAX_STARS] = cardIdAttr[lastOp.el]

\* C4: when the last toggle's write succeeded, a reload that resolves the same
\* identity gives every segment and every card the identifier it had, and
\* hydrates for every segment the starred set that was in memory.
C4_StarsSurviveReload ==
    [][(LoadStep /\ loaded /\ lastSet = "ok" /\ USER_UID' = USER_UID)
        => /\ segIdAttr' = segIdAttr
           /\ cardIdAttr' = cardIdAttr
           /\ \A s \in DOMAIN segIdAttr :
                  GetSet(starredMap', segIdAttr'[s]) = GetSet(starredMap, segIdAttr[s])]_vars

\* A reload under the same identity, after a successful write, hydrated two
\* stars into the segment whose identifier was derived from its id attribute.
C4_Witness ==
    /\ lastOp.op = "load"
    /\ lastOp.outcome = "ok"
    /\ segIdAttr[1] = "top_jobs"
    /\ Len(SegSet(1)) >= 2

\* C6: materialising the registry as the persisted value and hydrating a fresh
\* registry from what the gateway reads back yields, for every segment, the same
\* members in the same insertion order, hence the same eviction victim.
RoundTrip(map) ==
    Restore(StorageGet(StorageSet(EmptyStorage, GUEST, Snapshot(map), TRUE), GUEST, EMPTY_OBJECT, TRUE))

C5_PerUserIsolation ==
    [][/\ \A u \in Uids :
            localStorage'[getStorageKey(u)] # localStorage[getStorageKey(u)]
                => loaded /\ ToggleStep /\ u = USER_UID /\ USER_UID' = USER_UID
       /\ LoadStep =>
            \A s \in DOMAIN segIdAttr' :
                GetSet(starredMap', segIdAttr'[s])
                    = NewSet(GetSet(localStorage'[getStorageKey(USER_UID')].obj, segIdAttr'[s]))]_vars

\* A load under u1 hydrated u1's stars while the slot of u2 holds the star u2
\* toggled before; the two slots differ.
C5_Witness ==
    /\ lastOp.op = "load"
    /\ USER_UID = "u1"
    /\ SegSet(1) = <<AutoCardId(2), AutoCardId(1)>>
    /\ localStorage[getStorageKey("u2")].str = "json"
    /\ \E k \in DOMAIN localStorage[getStorageKey("u2")].obj :
          localStorage[getStorageKey("u2")].obj[k] = <<AutoCardId(3)>>

\* Card element e is starred in segment element s.
IsStarred(s, e) == Has(SegSet(s), cardIdAttr[e])

\* In the list cards, every starred card precedes every unstarred card.
StarredFirst(s, cards) ==
    \A i, j \in DOMAIN cards : (i < j /\ IsStarred(s, cards[j])) => IsStarred(s, cards[i])

\* In the list cards, the unstarred cards are in ascending original-index order.
UnstarredAscending(s, cards) ==
    \A i, j \in DOMAIN cards :
        (i < j /\ ~IsStarred(s, cards[i]) /\ ~IsStarred(s, cards[j]))
            => origIndex[cards[i]] < origIndex[cards[j]]

\* The children of segment s are its cards, each exactly once.
HoldsItsCards(s) ==
    /\ Len(dom[s]) = page[s].size
    /\ Range(dom[s]) = Range(AuthoredCards(page, s))

\* C7: when the deferred write of a full reorder has run, the segment's DOM
\* order is a permutation of its cards with every starred card before every
\* unstarred card and the unstarred cards in ascending original-index order.
C7_FullReorderPartitions ==
    lastOp.op = "attach"
        => /\ HoldsItsCards(lastOp.seg)
           /\ StarredFirst(lastOp.seg, dom[lastOp.seg])
           /\ UnstarredAscending(lastOp.seg, dom[lastOp.seg])

\* The identifiers of the starred cards of segment s, in DOM order.
StarredBlock(s) ==
    LET block == SelectSeq(dom[s], LAMBDA c : IsStarred(s, c))
    IN [i \in DOMAIN block |-> cardIdAttr[block[i]]]

\* The full reorder of the first load has completed and no toggle was requested.
StartupReorderDone == lastOp.op = "attach" /\ loads = 1 /\ toggles = 0

\* C8: after the full reorder at startup the starred block is in star insertion
\* order (the order of the persisted list): on original indices [0,1,2,3,4],
\* index 3 starred before index 1 gives [3,1,0,2,4] and index 1 starred before
\* index 3 gives [1,3,0,2,4].
C8_StartupBlockInInsertionOrder ==
    StartupReorderDone
        => /\ StarredBlock(lastOp.seg) = SegSet(lastOp.seg)
           /\ (page = FivePage /\ SegSet(1) = <<AutoCardId(4), AutoCardId(2)>>)
                  => dom[1] = <<4, 2, 1, 3, 5>>
           /\ (page = FivePage /\ SegSet(1) = <<AutoCardId(2), AutoCardId(4)>>)
                  => dom[1] = <<2, 4, 1, 3, 5>>

\* C9: when the reposition of a card that was starred has run, the card is at
\* the back of the starred block: every card before it in its segment is
\* starred and every card after it is unstarred.
C9_StarredCardJoinsBackOfBlock ==
    (lastOp.op = "reposition" /\ lastOp.outcome = "starred")
        => LET cards == dom[lastOp.seg]
               k == IndexOf(cards, lastOp.el)
           IN /\ k > 0
              /\ \A i \in DOMAIN cards : i < k => IsStarred(lastOp.seg, cards[i])
              /\ \A i \in DOMAIN cards : i > k => ~IsStarred(lastOp.seg, cards[i])

\* The callback of repositionCard runs.
RepositionStep ==
    /\ cur # <<>>
    /\ Head(cur).k = "reposition"
    /\ Len(cur') = Len(cur) - 1
    /\ lastOp'.op = "reposition"

\* C10: when the reposition of an unstarred card runs in a segment whose other
\* cards have the starred ones first and the unstarred ones in ascending
\* original-index order, only that card moves, and it lands after every starred
\* card, after every unstarred card of smaller original index and before every
\* unstarred card of larger original index.
C10_UnstarredCardRestored ==
    [][LET e == Head(cur).el
           s == cardSegmentMap[cardIdAttr[e]]
           others == Without(dom[s], e)
           after == dom'[s]
           k == IndexOf(after, e)
       IN (/\ RepositionStep
           /\ ~IsStarred(s, e)
           /\ StarredFirst(s, others)
           /\ UnstarredAscending(s, others))
          => /\ k > 0
             /\ Without(after, e) = others
             /\ \A i \in DOMAIN after :
                    i # k => (i < k <=> (IsStarred(s, after[i]) \/ origIndex[after[i]] < origIndex[e]))
             /\ UnstarredAscending(s, after)]_vars

\* Original indices 0 and 4 stay starred, 1 and 3 are unstarred and in order,
\* and the card of original index 2 was unstarred: the order is [0, 4, 1, 2, 3].
C10_Witness ==
    /\ lastOp.op = "reposition"
    /\ lastOp.outcome = "unstarred"
    /\ lastOp.el = 3
    /\ dom[1] = <<1, 5, 2, 3, 4>>
    /\ IsStarred(1, 1) /\ IsStarred(1, 5)
    /\ ~IsStarred(1, 2) /\ ~IsStarred(1, 3) /\ ~IsStarred(1, 4)

\* The first value of a list that is not empty, NULL when there is none.
RECURSIVE FirstAvailable(_)
FirstAvailable(vals) ==
    IF vals = <<>> THEN NULL
    ELSE IF Head(vals) # NULL THEN Head(vals)
    ELSE FirstAvailable(Tail(vals))

\* The identity the resolution order gives for query parameters loc and the
\* storage ls, ss: a URL token decoded, a stored token as it is.
ExpectedUid(loc, ls, ss) ==
    LET token == FirstAvailable(<<loc.uid, loc.user>>)
        stored == FirstAvailable(<<ls[MAIN_SITE_KEY].str, ss, ls[CACHE_KEY].str>>)
    IN IF token # NULL THEN decodeURIComponent(token)
       ELSE IF stored # NULL THEN stored
       ELSE GUEST

\* The resolution order on the loads whose URL token, if any, can be decoded.
ResolutionOrderWhenDecodable ==
    [][(LoadStep /\ lastOp'.outcome # "aborted")
        => USER_UID' = ExpectedUid(location', localStorage, sessionStorage)]_vars

\* C11: every page load resolves as identity the first available of: query
\* parameter uid, query parameter user, main-site token in localStorage,
\* main-site token in sessionStorage, cache slot, and otherwise the guest
\* literal; and the identity changes at no other step than a page load.
C11_ResolutionOrder ==
    [][/\ LoadStep =>
            /\ USER_UID' # NULL
            /\ USER_UID' # URI_ERROR
            /\ USER_UID' = ExpectedUid(location', localStorage, sessionStorage)
       /\ ~LoadStep => USER_UID' = USER_UID]_vars

\* C12: a page load calls setItem on the cache slot exactly when it resolved
\* an identity that differs from the value the slot held; the slot then holds
\* the resolved identity (or its old value, if the write was refused), and no
\* other storage item changes.
C12_CacheWrittenWhenChanged ==
    [][LoadStep =>
        /\ lastOp'.set <=> (USER_UID' # NULL /\ USER_UID' # localStorage[CACHE_KEY].str)
        /\ localStorage'[CACHE_KEY] # localStorage[CACHE_KEY]
               => lastOp'.set /\ localStorage'[CACHE_KEY] = StrItem(USER_UID')
        /\ \A k \in DOMAIN localStorage : k # CACHE_KEY => localStorage'[k] = localStorage[k]
        /\ sessionStorage' = sessionStorage]_vars

\* A load by URL token u1 replaced the identity of the document before and
\* overwrote the cache slot although the main site names u2.
C12_Witness ==
    /\ lastOp.op = "load"
    /\ lastOp.outcome = "switched"
    /\ lastOp.set
    /\ location.uid = "u1"
    /\ USER_UID = "u1"
    /\ localStorage[CACHE_KEY] = StrItem("u1")
    /\ localStorage[MAIN_SITE_KEY] = StrItem("u2")

\* C13: every page load ends with an identity in use and the engine started
\* (cards indexed, startup reorder requested), whether or not a source yields
\* an identity and whether or not the write of the cache slot succeeds.
C13_ResolutionNeverBlocksStartup ==
    [][LoadStep =>
        /\ loaded'
        /\ USER_UID' # NULL
        /\ raf' = <<InitCb>>
        /\ \A e \in Els(page) : cardIdAttr'[e] # ""]_vars

\* The storage listener handles the oldest pending event.
EventStep == lastOp'.op = "storage" /\ events # <<>> /\ events' = Tail(events)

\* The pending event names an identity key with a non-empty value that is not
\* the active identity.
IdentityChangeEvent ==
    /\ Head(events).key \in {MAIN_SITE_KEY, CACHE_KEY}
    /\ Head(events).newValue # NULL
    /\ Head(events).newValue # USER_UID

\* What the listener does with an identity change: the new value goes to the
\* cache slot, one more reload is pending, and nothing is reloaded yet.
SchedulesOneReload ==
    /\ timers' = timers + 1
    /\ loads' = loads
    /\ location' = location
    /\ loaded' = loaded
    /\ USER_UID' = USER_UID
    /\ localStorage' = [localStorage EXCEPT ![CACHE_KEY] = StrItem(Head(events).newValue)]

\* The listener's reaction to an identity change when its setItem succeeds.
ReloadScheduledWhenWriteSucceeds ==
    [][(EventStep /\ IdentityChangeEvent /\ lastOp'.outcome # "failed") => SchedulesOneReload]_vars

\* C14: a storage event for openrootUserUID or openroot_current_uid whose new
\* value is non-empty and differs from the active identity makes the listener
\* write the value to the cache slot and schedule exactly one reload, without
\* reloading inside the handler; the active identity changes only when a page
\* load happens, and a timed reload happens only if one was scheduled.
C14_IdentityChangeSchedulesReload ==
    [][/\ (EventStep /\ IdentityChangeEvent) => SchedulesOneReload
       /\ lastOp'.op = "reload" => (timers > 0 /\ LoadStep /\ location' = location)
       /\ ~LoadStep => USER_UID' = USER_UID]_vars

\* C15: a storage event whose key is not an identity key, whose new value is
\* empty, or whose new value is the active identity changes no storage item,
\* schedules no reload and changes nothing the engine holds in memory.
C15_OtherEventsChangeNothing ==
    [][(EventStep /\ ~IdentityChangeEvent)
        => /\ timers' = timers
           /\ loads' = loads
           /\ ~lastOp'.set
           /\ UNCHANGED <<localStorage, sessionStorage, location, loaded, USER_UID, starredMap,
                          cardSegmentMap, segIdAttr, cardIdAttr, origIndex, btnStarred, dom,
                          raf, cur>>]_vars

\* The listener ignored the event of another tab's write to the star slot of
\* u1, while the main site's token names another identity than the active one.
C15_Witness ==
    /\ lastOp.op = "storage"
    /\ lastOp.outcome = "ignored-key"
    /\ localStorage[getStorageKey("u1")].str = "json"
    /\ USER_UID = "u1"
    /\ timers = 0
    /\ reinits = 0
    /\ tabs = NoTabs

\* The slot of the active identity.
ActiveSlot == localStorage[getStorageKey(USER_UID)]

\* What a slot's content parses to; for content that does not parse, and for
\* an absent slot, the value other.
ParsedOr(slot, other) ==
    IF slot.str = "json" THEN JsonValue("lists", slot.obj)
    ELSE IF slot.str = "json-strings" THEN JsonValue("strings", slot.obj)
    ELSE IF slot.str = "json-numbers" THEN JsonValue("numbers", slot.obj)
    ELSE IF slot.str = "json-scalar" THEN JsonValue("scalar", EmptyObj)
    ELSE other

\* C16: Storage.get never raises: it returns the caller's fallback when the
\* slot is absent, when its content does not parse and when the read fails,
\* and the parsed value otherwise, and changes no item; Storage.set never
\* raises: it leaves the slot holding the serialized value, or, when
\* serializing or writing fails, what it held before, and changes no other item.
C16_GatewayNeverRaises ==
    [][/\ \A fallback \in Fallbacks, readOk \in BOOLEAN :
            CallStorageGet(fallback, readOk)
                => /\ ~IsThrown(lastOp'.ret)
                   /\ lastOp'.ret = IF readOk THEN ParsedOr(ActiveSlot, fallback) ELSE fallback
                   /\ localStorage' = localStorage
       /\ \A value \in StoreValues, ok \in BOOLEAN :
            CallStorageSet(value, ok)
                => /\ ActiveSlot' = IF ok THEN JsonItem(value) ELSE ActiveSlot
                   /\ \A k \in DOMAIN localStorage :
                          k # getStorageKey(USER_UID) => localStorage'[k] = localStorage[k]]_vars

\* Storage.get returned the caller's non-empty fallback for a slot whose
\* content is not JSON.
C16_Witness ==
    /\ lastOp.op = "get"
    /\ lastOp.ret = JsonValue("lists", "other" :> <<"x">>)
    /\ ActiveSlot = TextItem

\* The slot the load reads holds content the engine never writes.
LoadsMalformed(slot) == LoadStep /\ slot.str \notin {NULL, "json"}

\* Startup completed with nothing starred.
StartsEmpty ==
    /\ loaded'
    /\ raf' = <<InitCb>>
    /\ \A s \in DOMAIN segIdAttr' : GetSet(starredMap', segIdAttr'[s]) = <<>>
    /\ \A e \in Els(page) : ~btnStarred'[e]

\* Malformed content other than an object of strings is treated as absent.
MalformedExceptStringsIsAbsent ==
    [][(LoadsMalformed(localStorage[getStorageKey(USER_UID')])
            /\ localStorage[getStorageKey(USER_UID')].str # "json-strings")
        => StartsEmpty]_vars

\* C17: a load whose slot holds content that does not parse, a value that is
\* no object, or an object with a segment mapped to a string or a number,
\* completes startup with an empty starred set for every segment and no card
\* shown as starred.
C17_MalformedStateIsAbsent ==
    [][LoadsMalformed(localStorage[getStorageKey(USER_UID')]) => StartsEmpty]_vars

\* init() runs again on the engine of the current document.
ReinitStep == lastOp'.op = "reinit" /\ loads' = loads

\* Running the indexer again keeps every identifier.
ReindexKeepsIdentifiers ==
    [][ReinitStep
        => /\ \A s \in DOMAIN segIdAttr : segIdAttr'[s] = segIdAttr[s]
           /\ \A e \in Els(page) : cardIdAttr[e] # "" => cardIdAttr'[e] = cardIdAttr[e]]_vars

\* C18: running setupCards again on indexed cards changes no segment
\* identifier, no card identifier and no original index, also after stars have
\* reordered the DOM; within a document, an original index that has been
\* assigned never changes.
C18_IndexerIdempotent ==
    [][/\ ReinitStep
            => /\ \A s \in DOMAIN segIdAttr : segIdAttr'[s] = segIdAttr[s]
               /\ \A e \in Els(page) : cardIdAttr[e] # "" => cardIdAttr'[e] = cardIdAttr[e]
       /\ loads' = loads
            => \A e \in Els(page) : origIndex[e] >= 0 => origIndex'[e] = origIndex[e]]_vars

\* Indexed cards that are in the document have pairwise distinct identifiers.
DistinctCardIds ==
    \A s1, s2 \in DOMAIN dom : \A e1 \in Range(dom[s1]), e2 \in Range(dom[s2]) :
        (e1 # e2 /\ cardIdAttr[e1] # "") => cardIdAttr[e1] # cardIdAttr[e2]

\* The lookup of an indexed card's identifier gives the segment that holds it.
LookupFindsSegment ==
    \A s \in DOMAIN dom : \A e \in Range(dom[s]) :
        cardIdAttr[e] # ""
            => cardIdAttr[e] \in DOMAIN cardSegmentMap /\ cardSegmentMap[cardIdAttr[e]] = s

\* C19: after indexing, no two cards of the document have the same
\* identifier, also when cards were authored with an identifier and when
\* cards were added between two runs of the indexer, and the lookup maps every
\* indexed card to the segment that contains it.
C19_CardIdsUnique == loaded => (DistinctCardIds /\ LookupFindsSegment)

\* What a step leaves alone in segment s: its starred set and its card order.
Untouched(s) == SegSet(s)' = SegSet(s) /\ dom'[s] = dom[s]

\* A toggle, and the repositioning it requests, leave alone every segment
\* whose identifier differs from that of the toggled card's segment.
IndependentWhenSegIdsDiffer ==
    [][(ToggleStep \/ RepositionStep)
        => \A s \in DOMAIN dom :
              (lastOp'.seg \in DOMAIN dom /\ segIdAttr[s] # segIdAttr[lastOp'.seg])
                  => Untouched(s)]_vars

\* C20: a toggle on a card of segment S, and the repositioning it requests,
\* change only S's starred set and S's card order: for every other segment S'
\* the starred set (and so the number of stars counted against the capacity
\* of S') and the card order are unchanged, also when S and S' have the same
\* class list and no element id.
C20_SegmentsIndependent ==
    [][(ToggleStep \/ RepositionStep)
        => \A s \in DOMAIN dom : s # lastOp'.seg => Untouched(s)]_vars

\* The slot of the active identity.
PersistedSlot == localStorage[getStorageKey(USER_UID)]

\* The starred set of segment element s after the step.
SegSetAfter(s) == GetSet(starredMap', segIdAttr'[s])

\* A toggle that went through: it starred or unstarred the card.
SuccessfulToggle == ToggleStep /\ lastOp'.set

\* C21 (as amended): a successful toggle has mutated the registry, updated
\* the card's indicator and, when its write succeeds, written the snapshot of
\* the whole registry by the time its reposition is requested; and in every
\* state after a toggle of the current document whose write succeeded, the
\* slot holds the snapshot of the registry.
C21_SnapshotWrittenBeforeReposition ==
    /\ [][SuccessfulToggle
            => LET e == lastOp'.el
                   id == cardIdAttr[e]
               IN /\ raf' = Append(raf, RepositionCb(e))
                  /\ Has(SegSetAfter(lastOp'.seg), id) # Has(SetOfToggled, id)
                  /\ btnStarred'[e] = Has(SegSetAfter(lastOp'.seg), id)
                  /\ lastSet' = "ok" => PersistedSlot' = JsonItem(Snapshot(starredMap'))]_vars
    /\ [](loaded /\ lastSet = "ok" => PersistedSlot = JsonItem(Snapshot(starredMap)))

C21_Witness ==
    /\ lastOp.op = "toggle"
    /\ lastOp.outcome = "evicted"
    /\ lastSet = "ok"
    /\ raf # <<>>
    /\ raf[Len(raf)] = RepositionCb(lastOp.el)
    /\ Cardinality(DOMAIN starredMap) = 1
    /\ NumSegs(page) = 2
    /\ PersistedSlot = JsonItem(Snapshot(starredMap))

\* C21 as stated: whenever no toggle is executing and no write has failed,
\* the slot holds the snapshot of the registry.
C21_SlotEqualsSnapshotWhenIdle ==
    (loaded /\ lastSet # "failed") => PersistedSlot = JsonItem(Snapshot(starredMap))

\* The toggle request names a star control with no enclosing card (el = 0), a
\* card without identifier, or a card whose identifier has no segment.
UnresolvableRequest ==
    /\ lastOp'.op = "toggle"
    /\ toggles' = toggles + 1
    /\ \/ lastOp'.el = 0
       \/ cardIdAttr[lastOp'.el] = ""
       \/ cardIdAttr[lastOp'.el] \notin DOMAIN cardSegmentMap

\* C22: a toggle request whose star control has no enclosing card, whose card
\* has no identifier or whose identifier has no segment in the lookup changes
\* no starred set, no indicator, no DOM order and no stored item, requests no
\* frame, shows no prompt and returns without an exception.
C22_UnresolvableToggleIsNoOp ==
    [][UnresolvableRequest
        => /\ UNCHANGED <<starredMap, btnStarred, dom, localStorage, raf, cur, cardSegmentMap>>
           /\ lastOp'.prompt = "none"
           /\ ~lastOp'.set
           /\ ~IsThrown(lastOp'.ret)]_vars

C22_Witness ==
    /\ lastOp.op = "toggle"
    /\ lastOp.outcome = "rejected"
    /\ lastOp.el # 0
    /\ cardIdAttr[lastOp.el] = PROMO
    /\ \E s \in DOMAIN dom : lastOp.el \in Range(dom[s])
    /\ \E s \in DOMAIN dom : Len(SegSet(s)) > 0

\* The callbacks of a queue, by what they are and the card they are for.
Requests(q) == [i \in DOMAIN q |-> [k |-> q[i].k, seg |-> q[i].seg, el |-> q[i].el]]

IsPrefix(a, b) == Len(a) <= Len(b) /\ SubSeq(b, 1, Len(a)) = a

\* The reposition callback that runs follows one for the same card.
RepeatedReposition ==
    /\ RepositionStep
    /\ lastOp.op = "reposition"
    /\ lastOp.el = Head(cur).el

\* C23: callbacks are never cancelled and run in the order requested: a
\* frame takes the requested callbacks as they are, each step of a frame runs
\* the oldest callback and drops no other one, and requests made meanwhile
\* join the back of the next frame's queue; when the reposition of a card runs
\* right after another reposition of the same card, the DOM is already as
\* the card's star state dictates and does not change.
C23_RepositionsFifoLastWins ==
    [][/\ (cur # <<>>)
            => /\ Requests(cur') = Tail(Requests(cur))
               /\ IsPrefix(Requests(raf), Requests(raf'))
       /\ (cur = <<>> /\ loads' = loads)
            => \/ cur' = raf /\ raf' = <<>>
               \/ cur' = <<>> /\ IsPrefix(raf, raf')
       /\ RepeatedReposition => dom' = dom]_vars

C23_Witness ==
    /\ lastOp.op = "reposition"
    /\ lastOp.outcome = "unstarred"
    /\ cur = <<RepositionCb(lastOp.el)>>
    /\ toggles = 2
    /\ loads = 1
    /\ \E s \in DOMAIN dom : Len(SegSet(s)) > 0 /\ Len(dom[s]) = MAX_STARS + 1

\* No frame callback is pending or running.
Quiescent == loaded /\ raf = <<>> /\ cur = <<>>

\* Segment s has its starred cards first and its unstarred cards in ascending
\* original-index order.
Canonical(s) == StarredFirst(s, dom[s]) /\ UnstarredAscending(s, dom[s])

\* A reposition that finds the other cards of the segment in canonical order
\* leaves the whole segment in canonical order.
RepositionKeepsCanonical ==
    [][(RepositionStep /\ lastOp'.seg # 0)
        => LET s == lastOp'.seg
               others == Without(dom[s], lastOp'.el)
           IN (StarredFirst(s, others) /\ UnstarredAscending(s, others))
                  => (StarredFirst(s, dom'[s]) /\ UnstarredAscending(s, dom'[s]))]_vars

\* C24: in every quiescent state after the startup reorder, whatever star,
\* unstar and evicting toggles were made, every segment has all its starred
\* cards before all its unstarred cards and its unstarred cards in ascending
\* original-index order.
C24_QuiescentLayoutCanonical == Quiescent => \A s \in DOMAIN dom : Canonical(s)

\* The star control of every indexed card of the document shows whether the
\* card is in the starred set of its segment.
IndicatorsMatch ==
    \A s \in DOMAIN dom : \A e \in Range(dom[s]) :
        cardIdAttr[e] \in DOMAIN cardSegmentMap
            => btnStarred[e] = IsStarred(cardSegmentMap[cardIdAttr[e]], e)

\* A toggle that evicts no card keeps the indicators in step with the sets.
IndicatorsFollowPlainToggles ==
    [][(ToggleStep /\ lastOp'.outcome # "evicted" /\ IndicatorsMatch) => IndicatorsMatch']_vars

\* C25: in every state after startup in which no toggle is executing, the
\* star control of every indexed card shows the starred state exactly when the
\* card's identifier is in its segment's starred set, for the toggled card and
\* for every other card, a card removed by a capacity eviction included.
C25_IndicatorsMatchRegistry == loaded => IndicatorsMatch

\* C26: when the toggles made between init() and the first frame, the two
\* frame callbacks of the startup reorder and the repositions of those toggles
\* have all run, every segment holds each of its cards exactly once, starred
\* cards first and unstarred cards in ascending original-index order.
C26_EarlyToggleKeepsLayout ==
    Quiescent => \A s \in DOMAIN dom : HoldsItsCards(s) /\ Canonical(s)

\* The last callback of a frame has just run.
EndOfFrame == loaded /\ cur = <<>> /\ lastOp.op \in {"init", "attach", "reposition"}

\* C27: at the end of every frame each segment's children are exactly its
\* cards, each once: no full reorder and no reposition leaves a card out of
\* its segment across a frame boundary.
C27_NoCardDetachedAcrossFrames == EndOfFrame => \A s \in DOMAIN dom : HoldsItsCards(s)

\* The reload scheduled by the storage listener takes place.
MonitorReload == lastOp'.op = "reload" /\ loads' = loads + 1 /\ timers > 0

\* The identity the listener was notified of: it stored it in the cache slot
\* before scheduling the reload, and no identity key was written since.
NotifiedUid == localStorage[CACHE_KEY].str

\* The reloaded page adopts the notified identity when no source of higher
\* priority says otherwise.
ReloadAdoptsWhenNoOtherSource ==
    [][(/\ MonitorReload
        /\ uidFromUrl(location) = NULL
        /\ uidFromMainSite(localStorage, sessionStorage) \in {NULL, NotifiedUid})
        => USER_UID' = NotifiedUid]_vars

\* C29: after a reload triggered by the storage listener for a notified
\* identity v, with no identity write in between, the reloaded page resolves
\* v as its identity (and so reads and writes the star slot of v).
C29_ReloadAdoptsNotifiedIdentity ==
    [][MonitorReload
        => /\ USER_UID' = NotifiedUid
           /\ loaded'
           /\ starredMap' = setupCards(page', [dom |-> dom', segIdAttr |-> segIdAttr',
                                 cardIdAttr |-> cardIdAttr', origIndex |-> origIndex',
                                 cardSegmentMap |-> cardSegmentMap',
                                 starredMap |-> Restore(StorageGet(localStorage', NotifiedUid,
                                                                   EMPTY_OBJECT, TRUE)),
                                 autoId |-> 0]).starredMap]_vars

\* No tab has an event to handle or a reload scheduled.
TabsSettled == \A t \in TabIds : tabs[t].events = <<>> /\ ~tabs[t].reload

\* No tab was opened with a URL token and the main site has signed nobody in.
OnlyCacheSource ==
    /\ localStorage[MAIN_SITE_KEY].str = NULL
    /\ \A t \in TabIds : uidFromUrl(tabs[t].location) = NULL

\* Tabs that resolve their identity from the cache slot alone settle.
TabsSettleOnCacheAlone == ([]OnlyCacheSource) => <>[]TabsSettled

\* C28: with two tabs of the page open, whatever their URL tokens, the
\* main-site token and the cache slot, the reloads triggered by the storage
\* listener come to an end: from some point on no tab has a reload scheduled
\* and no identity notification is pending.
C28_CrossTabReloadsTerminate == <>[]TabsSettled

\* The storage the page of this user was loaded over.
StartStorage == SharedStorage(USER_UID)

\* The segment's starred set as hydrated at the start (lines 112-123), and the
\* DOM order and the indicators the page settled in.
StartList ==
    GetSet(Restore(StorageGet(StartStorage, USER_UID, EMPTY_OBJECT, TRUE)), segIdAttr[1])

StartOrder ==
    ReorderFragment(AuthoredCards(GridPage, 1), cardIdAttr, origIndex, StartList)

StartIndicators == [e \in Els(GridPage) |-> Has(StartList, cardIdAttr[e])]

\* Before the first toggle the page is as these definitions say: quiescent,
\* canonical, with fewer than MAX_STARS stars.
StartsAsLoaded ==
    toggles = 0
        => /\ Quiescent
           /\ localStorage = StartStorage
           /\ Len(StartList) < MAX_STARS
           /\ SegSet(1) = StartList
           /\ dom[1] = StartOrder
           /\ btnStarred = StartIndicators
           /\ Canonical(1)

\* Exactly two toggles were made since the start, every callback has run, and
\* the last one repositioned a card that was unstarred at the start and is
\* unstarred now: the two toggles starred and unstarred that card, with the
\* frames between them or after both.
RoundTripped ==
    /\ toggles = 2
    /\ Quiescent
    /\ lastOp.op = "reposition"
    /\ lastOp.el # 0
    /\ ~Has(StartList, cardIdAttr[lastOp.el])
    /\ ~Has(SegSet(1), cardIdAttr[lastOp.el])

\* The starred set with its insertion order, the indicators and the DOM order
\* are those of the start.
Restored ==
    /\ SegSet(1) = StartList
    /\ btnStarred = StartIndicators
    /\ dom[1] = StartOrder

\* C30 (as amended): from a quiescent canonical state with fewer than
\* MAX_STARS stars, starring an unstarred card and unstarring it again, the
\* frames run after each toggle or after both, restores the starred set with
\* its insertion order, every indicator and the DOM order; when the write of
\* the unstar succeeds the slot holds the snapshot of the restored registry,
\* and the slots of the other identities are as they were.
C30_StarUnstarRestores ==
    RoundTripped
        => /\ Restored
           /\ lastSet = "ok" => PersistedSlot = JsonItem(segIdAttr[1] :> StartList)
           /\ \A k \in StorageKeys \ {getStorageKey(USER_UID)} : localStorage[k] = StartStorage[k]

\* User u1, with card-4 and card-2 starred, has starred and unstarred another
\* card; both frames have run and the write of the unstar went through.
C30_Witness ==
    /\ RoundTripped
    /\ USER_UID = "u1"
    /\ SegSet(1) = <<AutoCardId(4), AutoCardId(2)>>
    /\ lastOp.outcome = "unstarred"
    /\ lastSet = "ok"
    /\ PersistedSlot = JsonItem(segIdAttr[1] :> SegSet(1))

\* C30: from a quiescent canonical state with fewer than MAX_STARS stars,
\* starring an unstarred card and then unstarring it restores the starred
\* set with its insertion order, all star indicators, the persisted state and
\* the DOM order.
C30_StarUnstarIsIdentity == RoundTripped => (Restored /\ localStorage = StartStorage)

\* Another tab saved a snapshot to the star-state slot of this tab's identity.
OtherTabSaved ==
    /\ lastOp'.op = "write"
    /\ PersistedSlot' # PersistedSlot

\* The listener handles the event of such a save.
StarSlotEvent == EventStep /\ Head(events).key = getStorageKey(USER_UID)

\* What the tab holds in memory and shows, and what it has scheduled.
TabUntouched == UNCHANGED <<starredMap, btnStarred, dom, raf, cur, timers, loaded, USER_UID>>

\* C31: with another tab open under the same identity, the tab's registry is
\* what it hydrated at startup and toggled since: a save of the other tab and
\* the storage event it raises change nothing in this tab and cause no
\* reload; a toggle that goes through and whose write succeeds leaves in the
\* slot the snapshot of this tab's registry, every identifier of which was in
\* this tab's registry before the toggle or is the toggled card, whatever the
\* slot held (the other tab's stars are not merged); and each list written
\* has at most MAX_STARS entries when this tab's sets had.
C31_LastWriterWins ==
    [][/\ OtherTabSaved => TabUntouched
       /\ StarSlotEvent => (TabUntouched /\ UNCHANGED localStorage)
       /\ (SuccessfulToggle /\ lastSet' = "ok")
              => /\ PersistedSlot' = JsonItem(Snapshot(starredMap'))
                 /\ \A k \in DOMAIN PersistedSlot'.obj :
                        /\ Range(PersistedSlot'.obj[k])
                               \subseteq Range(GetSet(starredMap, k)) \cup {cardIdAttr[lastOp'.el]}
                        /\ (\A j \in DOMAIN starredMap : Len(starredMap[j]) <= MAX_STARS)
                               => Len(PersistedSlot'.obj[k]) <= MAX_STARS]_vars

\* The other tab saved a snapshot after this tab had started, then this tab,
\* holding MAX_STARS stars, starred one more card and evicted its oldest: the
\* slot holds this tab's snapshot, not the other tab's, while the event of
\* the other tab's save is still waiting for the listener.
C31_Witness ==
    /\ lastOp.op = "toggle"
    /\ lastOp.outcome = "evicted"
    /\ lastSet = "ok"
    /\ Len(events) = 1
    /\ Head(events).key = getStorageKey(USER_UID)
    /\ PersistedSlot = JsonItem(Snapshot(starredMap))
    /\ PersistedSlot.obj \notin OtherTabSnapshots
    /\ Len(SegSet(1)) = MAX_STARS

====
